---- MODULE Spec2Model ----
(***************************************************************************)
(* Event-flow inventory of the BioPro analysis scripts.                    *)
(*                                                                         *)
(*  - analyze_biopro_comprehensive.py: EventFlowMapper (constructor,       *)
(*    map_flows) and main (inventory summary, orphaned-event listing,      *)
(*    markdown report).                                                    *)
(*  - create_complete_eventcatalog.py: the event-page loop of main and     *)
(*    create_eventcatalog_mdx, working on the event_flows mapping of the   *)
(*    inventory file.                                                      *)
(*  - analyze_biopro_comprehensive.py: ServiceAnalyzer (analyze, the three *)
(*    _process_* methods, _build_service_info).                            *)
(*  - extract_schemas_from_java_v3.py: extract_schemas, generate_avro_     *)
(*    schema, resolve_java_type_to_avro, deduplicate_types and the two     *)
(*    module-level caches.                                                 *)
(*  - extract_with_consumers.py and extract_all_biopro_repos.py: the       *)
(*    service loop of main that builds the event_flows mapping.            *)
(*  - register_schemas.py and register_eventcatalog_schemas.py: main with  *)
(*    the connectivity check, the file scan, the registration loop and     *)
(*    the exit status.                                                     *)
(*  - generate_demo_events.py: main (argument checks, health checks),      *)
(*    generate_events, EventClient.send_event and StatsTracker.            *)
(***************************************************************************)
EXTENDS Integers, Sequences, FiniteSets, TLC

VARIABLES
    repositories,   \* EventFlowMapper.repositories (the constructor argument)
    event_flows,    \* EventFlowMapper.event_flows (list of flow records)
    outputs,        \* what each map_flows call returned, as seen at its return
    pc,             \* "collect" | "api" (map_flows called directly) | "main_done" | "raised"
    inventory,      \* inventory["summary"] and inventory["event_flows"] of main
    printed,        \* the orphaned events printed by main, in print order
    report,         \* the "Orphaned Events Report" section of the markdown report
    all_events,     \* create_complete_eventcatalog.main: complete_data["events"]
    cat_flows,      \* create_complete_eventcatalog.main: complete_data["event_flows"]
    cat_idx,        \* number of events the event-page loop has processed
    pages,          \* the event pages written so far
    registered_count,
    created_count,
    registry_log,   \* per processed event: the registry exchange and what register_schema returned
    java_files,         \* ServiceAnalyzer.analyze: the files rglob("*.java") lists
    published_events,   \* ServiceAnalyzer.published_events
    consumed_events,    \* ServiceAnalyzer.consumed_events
    event_details,      \* ServiceAnalyzer.event_details
    warnings,           \* positions of the files analyze printed a warning for
    service_info,       \* what analyze returned
    payload_files,      \* extract_schemas: the files of the payload glob
    type_definitions_cache,     \* module global of extract_schemas_from_java_v3
    types_defined_in_schema,    \* module global of extract_schemas_from_java_v3
    schemas_generated,
    schemas_failed,
    schema_files,       \* the .avsc files written, in write order
    service_dirs,       \* extract scripts: the services of REPOS with the files os.walk finds
    inventory_flows,    \* extract scripts: event_flows of main, one entry per key in key order
    schema_file_list,   \* registration scripts: schema_files of main
    reg_idx,            \* registration scripts: files the loop of main has handled
    attempts,           \* registration scripts: one entry per register_schema call
    registered,         \* registration scripts: counter of main
    failed,             \* registration scripts: counter of main
    skipped,            \* register_eventcatalog_schemas: counter of main
    verified,           \* registration scripts: the answer to GET /subjects after the loop
    exit_status,        \* registration scripts: -1 while running, else the exit status
    args,               \* generate_demo_events: the parsed arguments
    health,             \* generate_demo_events.main: the status of each health check made
    demo_events,        \* generate_events: the shuffled list of (service, is_valid)
    sent,               \* the POSTs EventClient.send_event made, in order
    stats,              \* the StatsTracker: total and by_service
    last_record,        \* the last StatsTracker.record call and whether it raised
    demo_exit           \* generate_demo_events: -1 while running, else the exit status

vars == <<repositories, event_flows, outputs, pc, inventory, printed, report,
          all_events, cat_flows, cat_idx, pages, registered_count, created_count,
          registry_log,
          java_files, published_events, consumed_events, event_details, warnings,
          service_info,
          payload_files, type_definitions_cache, types_defined_in_schema,
          schemas_generated, schemas_failed, schema_files,
          service_dirs, inventory_flows,
          schema_file_list, reg_idx, attempts, registered, failed, skipped, verified,
          exit_status,
          args, health, demo_events, sent, stats, last_record, demo_exit>>

flowVars    == <<repositories, event_flows, outputs, pc, inventory, printed, report>>
flowData    == <<repositories, event_flows, outputs, inventory, printed, report>>
catalogVars == <<all_events, cat_flows, cat_idx, pages, registered_count, created_count,
                 registry_log>>
analyzerVars == <<java_files, published_events, consumed_events, event_details,
                  warnings, service_info>>
schemaVars  == <<payload_files, type_definitions_cache, types_defined_in_schema,
                 schemas_generated, schemas_failed, schema_files>>
extractVars == <<service_dirs, inventory_flows>>
bulkVars    == <<schema_file_list, reg_idx, attempts, registered, failed, skipped,
                 verified, exit_status>>
demoVars    == <<args, health, demo_events, sent, stats, last_record, demo_exit>>
scriptVars  == <<analyzerVars, schemaVars, extractVars, bulkVars, demoVars>>

(***************************************************************************)
(* Bounds of the model                                                     *)
(***************************************************************************)
MaxSize     == 5    \* repositories plus services plus publishes and consumes entries of one input
MaxCalls    == 2    \* map_flows invocations on one EventFlowMapper
MaxEvents   == 2    \* event records in the inventory file read by the catalog generator
MaxFiles    == 3    \* Java files of the service one ServiceAnalyzer works on
MaxPayloads == 2    \* payload files extract_schemas finds
MaxWalk     == 5    \* services plus event files plus listener files of one extract run
MaxSchemaFiles == 3 \* .avsc files one registration run finds
MaxCount    == 4    \* --count of generate_demo_events
MaxRecords  == 4    \* StatsTracker.record calls on one tracker

\* Event names, listed in ascending string order (Python compares str by code point).
EventNames   == <<"AEvent", "BEvent">>
RepoNames    == {"r1", "r2"}
ServiceNames == {"s1", "s2"}

Range(s) == {s[i] : i \in DOMAIN s}

\* Python's < on the event names of the model.
Rank(e) == CHOOSE i \in DOMAIN EventNames : EventNames[i] = e
StrLess(a, b) == Rank(a) < Rank(b)

(***************************************************************************)
(* Inputs: lists of repository records as RepositoryAnalyzer.analyze       *)
(* returns them, {"name", "path", "services"} or, when the repository path *)
(* does not exist, {"name", "services": []}. Each service is a record      *)
(* {"name", "publishes", "consumes"} whose two lists are sorted and        *)
(* duplicate-free, as _build_service_info produces them. Repository names  *)
(* and service names may repeat within an input.                           *)
(***************************************************************************)
RECURSIVE SortedLists(_)
SortedLists(from) ==
    IF from > Len(EventNames) THEN {<<>>}
    ELSE LET rest == SortedLists(from + 1)
         IN  rest \cup {<<EventNames[from]>> \o l : l \in rest}

EventLists == SortedLists(1)

\* the fields of a service record that map_flows reads
ServiceRecords == [name : ServiceNames, publishes : EventLists, consumes : EventLists]

(***************************************************************************)
(* EventFlowMapper.map_flows                                               *)
(***************************************************************************)
\* a defaultdict(list) is a function from its keys to lists
EmptyDict == <<>>

\* d[key] = [value] where the code appends: the last service replaces the others
DictAppend_Assign(d, key, value) ==
    [k \in DOMAIN d \cup {key} |-> IF k = key THEN <<value>> ELSE d[k]]

\* d[key].append(value) on a defaultdict(list)
DictAppend(d, key, value) ==
    IF key \in DOMAIN d
    THEN [d EXCEPT ![key] = Append(@, value)]
    ELSE [k \in DOMAIN d \cup {key} |-> IF k = key THEN <<value>> ELSE d[k]]

\* d.get(key, [])
DictGet(d, key) == IF key \in DOMAIN d THEN d[key] ELSE <<>>

\* service_id = f"{repo['name']}/{service['name']}"
ServiceId(repo, service) == repo.name \o "/" \o service.name

\* for event_name in names: d[event_name].append(service_id)
RECURSIVE ScanNames(_, _, _)
ScanNames(d, names, service_id) ==
    IF names = <<>> THEN d
    ELSE ScanNames(DictAppend(d, Head(names), service_id), Tail(names), service_id)

\* the loop over repo['services']; acc = [pub |-> event_publishers, con |-> event_consumers]
RECURSIVE ScanServices(_, _, _)
ScanServices(acc, repo, services) ==
    IF services = <<>> THEN acc
    ELSE LET service == Head(services)
             sid     == ServiceId(repo, service)
         IN  ScanServices([pub |-> ScanNames(acc.pub, service.publishes, sid),
                           con |-> ScanNames(acc.con, service.consumes, sid)],
                          repo, Tail(services))

\* the loop over self.repositories
RECURSIVE ScanRepos(_, _)
ScanRepos(acc, repos) ==
    IF repos = <<>> THEN acc
    ELSE ScanRepos(ScanServices(acc, Head(repos), Head(repos).services), Tail(repos))

\* all_events = set(event_publishers.keys()): the consumed names are left out
AllEvents_PublishedOnly(event_publishers, event_consumers) ==
    DOMAIN event_publishers

\* all_events = set(event_publishers.keys()) | set(event_consumers.keys())
AllEvents(event_publishers, event_consumers) ==
    DOMAIN event_publishers \cup DOMAIN event_consumers

\* sorted(all_events)
RECURSIVE SortedNames(_)
SortedNames(S) ==
    IF S = {} THEN <<>>
    ELSE LET m == CHOOSE x \in S : \A y \in S : y = x \/ StrLess(x, y)
         IN  <<m>> \o SortedNames(S \ {m})

\* "and" where the code has "or"
IsOrphaned_And(publishers, consumers) == Len(publishers) = 0 /\ Len(consumers) = 0

\* "is_orphaned": len(publishers) == 0 or len(consumers) == 0
IsOrphaned(publishers, consumers) == Len(publishers) = 0 \/ Len(consumers) = 0

\* the record appended for one event name
FlowRecord(event_name, event_publishers, event_consumers) ==
    LET publishers == DictGet(event_publishers, event_name)
        consumers  == DictGet(event_consumers, event_name)
    IN  [event       |-> event_name,
         publishers  |-> publishers,
         consumers   |-> consumers,
         is_orphaned |-> IsOrphaned(publishers, consumers)]

\* the keys map_flows would read of every repository if it also used
\* repo['path'], as generate_markdown_report does through repo.get('path', 'N/A')
RepoKeys_Path == {"services", "path"}

\* the keys map_flows reads of every repository (repo['services'])
RepoKeys == {"services"}

\* the keys read once per service: repo['name'] and service['name'] for the
\* service id, service['publishes'], service['consumes']
ServiceKeys == {"name", "publishes", "consumes"}

\* map_flows raises KeyError: a subscript names a key the record does not have
KeyErrors(repos) ==
    \E i \in DOMAIN repos :
        \/ ~(RepoKeys \subseteq DOMAIN repos[i])
        \/ /\ repos[i].services # <<>>
           /\ \/ "name" \notin DOMAIN repos[i]
              \/ \E j \in DOMAIN repos[i].services :
                     ~(ServiceKeys \subseteq DOMAIN repos[i].services[j])

\* map_flows on a mapper whose event_flows attribute holds self_flows:
\* the value of self.event_flows afterwards, which is also what it returns
map_flows(self_flows, repos) ==
    LET acc   == ScanRepos([pub |-> EmptyDict, con |-> EmptyDict], repos)
        names == SortedNames(AllEvents(acc.pub, acc.con))
    IN  self_flows \o [i \in 1..Len(names) |-> FlowRecord(names[i], acc.pub, acc.con)]

(***************************************************************************)
(* analyze_biopro_comprehensive.main and generate_markdown_report          *)
(***************************************************************************)
\* sum(len(r['services']) for r in all_repositories)
RECURSIVE TotalServices(_)
TotalServices(repos) ==
    IF repos = <<>> THEN 0
    ELSE Len(Head(repos).services) + TotalServices(Tail(repos))

\* number of publishes and consumes entries of an input
RECURSIVE ServiceRefs(_)
ServiceRefs(services) ==
    IF services = <<>> THEN 0
    ELSE Len(Head(services).publishes) + Len(Head(services).consumes)
         + ServiceRefs(Tail(services))

RECURSIVE TotalRefs(_)
TotalRefs(repos) ==
    IF repos = <<>> THEN 0
    ELSE ServiceRefs(Head(repos).services) + TotalRefs(Tail(repos))

\* size of an input: its repositories, services and event-name entries
InputSize(repos) == Len(repos) + TotalServices(repos) + TotalRefs(repos)

\* [f for f in event_flows if f['is_orphaned']]
OrphanedFlows(flows) == SelectSeq(flows, LAMBDA f : f.is_orphaned)

\* total_events counting the repositories scanned instead of the flows
Summary_CountRepositories(all_repositories, flows) ==
    [total_repositories |-> Len(all_repositories),
     total_services     |-> TotalServices(all_repositories),
     total_events       |-> Len(all_repositories),
     orphaned_events    |-> Len(OrphanedFlows(flows))]

\* orphaned_events counting the flows that are not orphaned
Summary_CountConnected(all_repositories, flows) ==
    [total_repositories |-> Len(all_repositories),
     total_services     |-> TotalServices(all_repositories),
     total_events       |-> Len(flows),
     orphaned_events    |-> Len(SelectSeq(flows, LAMBDA f : ~f.is_orphaned))]

\* inventory["summary"]
Summary(all_repositories, flows) ==
    [total_repositories |-> Len(all_repositories),
     total_services     |-> TotalServices(all_repositories),
     total_events       |-> Len(flows),
     orphaned_events    |-> Len(OrphanedFlows(flows))]

\* the loop with the test inverted: "if not flow['is_orphaned']"
PrintOrphans_Inverted(flows) == SelectSeq(flows, LAMBDA f : ~f.is_orphaned)

\* the "for flow in event_flows: if flow['is_orphaned']: print(...)" loop of main
RECURSIVE PrintOrphans(_)
PrintOrphans(flows) ==
    IF flows = <<>> THEN <<>>
    ELSE IF Head(flows).is_orphaned
         THEN <<Head(flows)>> \o PrintOrphans(Tail(flows))
         ELSE PrintOrphans(Tail(flows))

\* the "## Orphaned Events Report" section: orphaned = [f for f in ... if f['is_orphaned']]
ReportOrphaned(inv_flows) == OrphanedFlows(inv_flows)

\* all_repositories as the scan of main can return it: one record per key of
\* REPOSITORIES, one service record per configured service name
ScanResult(repos) ==
    /\ \A i, j \in DOMAIN repos : i # j => repos[i].name # repos[j].name
    /\ \A i \in DOMAIN repos : \A a, b \in DOMAIN repos[i].services :
           a # b => repos[i].services[a].name # repos[i].services[b].name

NoInventory == [status |-> "none"]

\* str(repo_path) of the repository configured under name n
RepoPath(n) == "/biopro/" \o n

\* what RepositoryAnalyzer.analyze returns before its services are analyzed:
\* without "path" when the repository path does not exist
RepositoryRecord(n, found) ==
    IF found THEN [name |-> n, path |-> RepoPath(n), services |-> <<>>]
    ELSE [name |-> n, services |-> <<>>]

(***************************************************************************)
(* Actions on the mapper and the analysis run                              *)
(***************************************************************************)
\* The caller collects the repository list the mapper works on: one more
\* repository record (all_repositories.append(repo_info)) ...
AddRepository(n, found) ==
    /\ pc = "collect"
    /\ InputSize(repositories) < MaxSize
    /\ repositories' = Append(repositories, RepositoryRecord(n, found))
    /\ UNCHANGED <<event_flows, outputs, pc, inventory, printed, report>>
    /\ UNCHANGED <<catalogVars, scriptVars>>

\* ... or one more service record in the repository collected last
\* (self.services.append(service_info)), whose path exists.
AddService(s) ==
    /\ pc = "collect"
    /\ repositories # <<>>
    /\ "path" \in DOMAIN repositories[Len(repositories)]
    /\ InputSize(repositories) + 1 + Len(s.publishes) + Len(s.consumes) <= MaxSize
    /\ repositories' = [repositories EXCEPT ![Len(repositories)].services = Append(@, s)]
    /\ UNCHANGED <<event_flows, outputs, pc, inventory, printed, report>>
    /\ UNCHANGED <<catalogVars, scriptVars>>

\* One direct invocation of map_flows on the mapper constructed over the list.
\* A KeyError leaves the call before anything is appended to self.event_flows.
MapFlows ==
    /\ pc \in {"collect", "api"}
    /\ Len(outputs) < MaxCalls
    /\ IF KeyErrors(repositories)
       THEN /\ pc' = "raised"
            /\ UNCHANGED <<event_flows, outputs>>
       ELSE /\ event_flows' = map_flows(event_flows, repositories)
            /\ outputs' = Append(outputs, event_flows')
            /\ pc' = "api"
    /\ UNCHANGED <<repositories, inventory, printed, report>>
    /\ UNCHANGED <<catalogVars, scriptVars>>

\* main(): construct the mapper on the scan result, call map_flows once, build
\* the inventory, write the report, print the orphaned events.
\* An error raised by map_flows ends main before the inventory is built.
Main ==
    /\ pc = "collect"
    /\ ScanResult(repositories)
    /\ IF KeyErrors(repositories)
       THEN /\ pc' = "raised"
            /\ UNCHANGED <<event_flows, outputs, inventory, printed, report>>
       ELSE LET flows == map_flows(event_flows, repositories)
            IN  /\ event_flows' = flows
                /\ outputs' = Append(outputs, flows)
                /\ inventory' = [status      |-> "built",
                                 event_flows |-> flows,
                                 summary     |-> Summary(repositories, flows)]
                /\ report' = ReportOrphaned(flows)
                /\ printed' = PrintOrphans(flows)
                /\ pc' = "main_done"
    /\ UNCHANGED repositories
    /\ UNCHANGED <<catalogVars, scriptVars>>

(***************************************************************************)
(* create_complete_eventcatalog: create_eventcatalog_mdx and the event     *)
(* loop of main                                                            *)
(***************************************************************************)
CatalogServices == {"a", "b"}

\* event records of the inventory file; "service" may be absent
EventRecords ==
    [name : Range(EventNames), service : CatalogServices] \cup [name : Range(EventNames)]

PublisherLists == {<<>>, <<"a">>, <<"b">>, <<"a", "b">>, <<"b", "a">>}
ConsumerLists  == {<<>>, <<"b">>}

\* entries of the event_flows mapping; "publishers" may be absent
FlowDicts ==
    [publishers : PublisherLists, consumers : ConsumerLists] \cup [consumers : ConsumerLists]

FlowMappings == UNION {[S -> FlowDicts] : S \in SUBSET Range(EventNames)}

\* The outcome of one HTTP request to the registry: status 0 stands for a
\* request that raised a RequestException (no connection, timeout), status -1
\* for a request that was not sent; body is the kind of the response body:
\* "object" a JSON object, which has_id and id (an int) describe, "not_json"
\* no JSON at all, "not_object" JSON that is no object (a list, null, a
\* string, a number).
Outcome(status, has_id, id) ==
    [status |-> status, has_id |-> has_id, id |-> id, body |-> "object"]
Malformed(status, body) ==
    [status |-> status, has_id |-> FALSE, id |-> 0, body |-> body]
NotSent == Outcome(-1, FALSE, 0)

\* outcomes of requests.post(url, json=payload, headers=headers)
PostOutcomes ==
    {Outcome(0, FALSE, 0), Outcome(200, TRUE, 2), Outcome(200, FALSE, 0),
     Outcome(409, FALSE, 0), Outcome(500, FALSE, 0),
     Malformed(200, "not_json"), Malformed(200, "not_object")}

\* outcomes of requests.get(get_url), sent after a 409 only
GetOutcomes ==
    {Outcome(0, FALSE, 0), Outcome(200, TRUE, 1), Outcome(200, FALSE, 0),
     Outcome(404, FALSE, 0),
     Malformed(200, "not_json"), Malformed(200, "not_object")}

\* body.get('id', -1)
BodyId(outcome) == IF outcome.has_id THEN outcome.id ELSE -1

\* the answer whose body register_schema reads: that of the lookup after a
\* 409 when the lookup answered 200, else that of the POST
BodyRead(post, get) == IF post.status = 409 /\ get.status = 200 THEN get ELSE post

\* register_schema(subject, schema) raises: the except clause names
\* RequestException only, so the AttributeError of .get('id', -1) on a body
\* that is no object leaves the function. A body that is no JSON raises the
\* JSONDecodeError of requests, a RequestException, and is caught.
register_schema_raises(post, get) ==
    /\ post.status # 0
    /\ (post.status = 409 /\ get.status = 200) \/ post.status < 400
    /\ BodyRead(post, get).body = "not_object"

\* register_schema(subject, schema) when the registry answers post, and get
\* to the lookup of the latest version: the int it returns when it returns.
\* A request that raises and raise_for_status on a 4xx or 5xx answer end in
\* the except branch, which returns -1.
register_schema(post, get) ==
    IF post.status = 0 THEN -1
    ELSE IF post.status = 409 /\ get.status = 200
         THEN (IF get.body = "not_json" THEN -1 ELSE BodyId(get))
    ELSE IF post.status >= 400 THEN -1
    ELSE IF post.body = "not_json" THEN -1
    ELSE BodyId(post)

\* "if schema_id > 0: ... else: schema_id = 999"
SchemaIdUsed(result) == IF result > 0 THEN result ELSE 999

\* event.get('service', 'unknown')
EventService(event) == IF "service" \in DOMAIN event THEN event.service ELSE "unknown"

\* event['name'].replace('Event', '') on the event names of the model
EventId(name) == CASE name = "AEvent" -> "A" [] name = "BEvent" -> "B"

\* create_eventcatalog_mdx(event, schema_id, avro_schema, event_flows): the page
\* it returns and the event_flows mapping as the call leaves it. The list bound
\* to publishers is the one stored in the mapping whenever the entry exists and
\* has the key, so publishers.append changes the mapping.
create_eventcatalog_mdx(event, schema_id, flows) ==
    LET service_name == EventService(event)
        present      == event.name \in DOMAIN flows
        flow         == IF present THEN flows[event.name]
                        ELSE [publishers |-> <<>>, consumers |-> <<>>]
        stored       == "publishers" \in DOMAIN flow
        publishers   == IF stored THEN flow.publishers ELSE <<service_name>>
        consumers    == IF "consumers" \in DOMAIN flow THEN flow.consumers ELSE <<>>
        appended     == IF service_name \notin Range(publishers)
                        THEN Append(publishers, service_name) ELSE publishers
    IN  [event_flows |-> IF present /\ stored
                         THEN [flows EXCEPT ![event.name].publishers = appended]
                         ELSE flows,
         page |-> [id        |-> EventId(event.name),
                   subject   |-> event.name,
                   schema_id |-> schema_id,
                   owners    |-> <<service_name \o "-service">>,
                   producers |-> <<service_name \o "-service">>,
                   consumers |-> [i \in DOMAIN consumers |-> consumers[i] \o "-service"]]]

\* d[key] = value on a dict
DictSet(d, key, value) ==
    [k \in DOMAIN d \cup {key} |-> IF k = key THEN value ELSE d[k]]

\* One iteration of "for idx, event in enumerate(all_events, 1)": register the
\* schema, render the page, write it to <events dir>/<event id>/index.mdx.
\* main catches nothing: when register_schema raises, the run ends there
\* (pc = "cat_raised") with the event not processed.
ProcessEvent ==
    /\ pc = "idle"
    /\ cat_idx < Len(all_events)
    /\ \E post \in PostOutcomes :
       \E get \in IF post.status = 409 THEN GetOutcomes ELSE {NotSent} :
         IF register_schema_raises(post, get)
         THEN /\ registry_log' = Append(registry_log,
                                        [post |-> post, get |-> get,
                                         raised |-> TRUE, returned |-> 0])
              /\ pc' = "cat_raised"
              /\ UNCHANGED <<registered_count, cat_flows, pages, created_count, cat_idx>>
         ELSE LET event     == all_events[cat_idx + 1]
                  result    == register_schema(post, get)
                  schema_id == SchemaIdUsed(result)
                  mdx       == create_eventcatalog_mdx(event, schema_id, cat_flows)
              IN  /\ registered_count' = IF result > 0 THEN registered_count + 1
                                          ELSE registered_count
                  /\ cat_flows' = mdx.event_flows
                  /\ pages' = DictSet(pages, EventId(event.name), mdx.page)
                  /\ created_count' = created_count + 1
                  /\ registry_log' = Append(registry_log,
                                            [post |-> post, get |-> get,
                                             raised |-> FALSE, returned |-> result])
                  /\ cat_idx' = cat_idx + 1
                  /\ pc' = pc
    /\ UNCHANGED all_events
    /\ UNCHANGED <<flowData, scriptVars>>

(***************************************************************************)
(* ServiceAnalyzer: analyze, _process_event_file, _process_listener_file,  *)
(* _process_producer_file, _build_service_info                             *)
(***************************************************************************)
\* the matches of event_pattern in one listener or producer file, in text order
MatchLists == {<<>>, <<"AEvent">>, <<"AEvent", "AEvent">>, <<"BEvent", "AEvent">>}

\* A Java file of the service, by what analyze finds out about it:
\*   readable   - jfile.read_text returns (it raises OSError otherwise);
\*   role       - which of is_event_file / is_listener_file / is_producer_file
\*                accepts the path first, "other" when none does;
\*   class_name - extract_class_name(content, filepath);
\*   direction  - the "direction" of _process_event_file: outbound when the
\*                path says so, else inbound when the path says so, else unknown;
\*   matches    - the event names event_pattern finds in the content.
EventFiles ==
    [readable : {TRUE}, role : {"event"}, class_name : Range(EventNames),
     direction : {"outbound", "inbound", "unknown"}, matches : {<<>>}]
    \cup {[readable |-> TRUE, role |-> "event", class_name |-> "EventMapper",
           direction |-> "outbound", matches |-> <<>>]}

ListenerFiles ==
    [readable : {TRUE}, role : {"listener"}, class_name : {"AListener"},
     direction : {"unknown"}, matches : MatchLists \ {<<>>}]

ProducerFiles ==
    [readable : {TRUE}, role : {"producer"}, class_name : {"AProducer"},
     direction : {"unknown"}, matches : MatchLists \ {<<>>}]

OtherFiles ==
    {[readable |-> TRUE, role |-> "other", class_name |-> "Config",
      direction |-> "unknown", matches |-> <<>>]}

UnreadableFiles ==
    [readable : {FALSE}, role : {"event"}, class_name : {"AEvent"},
     direction : {"outbound", "inbound"}, matches : {<<>>}]

JavaFiles == EventFiles \cup ListenerFiles \cup ProducerFiles \cup OtherFiles
             \cup UnreadableFiles

\* class_name.endswith('Event') on the class names of the model
EndsWithEvent(class_name) == class_name \in Range(EventNames)

\* the analyzer's attributes right after __init__
NewAnalyzer ==
    [published_events |-> <<>>, consumed_events |-> <<>>, event_details |-> <<>>,
     warnings |-> <<>>]

\* _process_event_file
ProcessEventFile(st, jfile) ==
    IF ~EndsWithEvent(jfile.class_name) THEN st
    ELSE LET detailed == [st EXCEPT !.event_details =
                             Append(@, [name |-> jfile.class_name,
                                        direction |-> jfile.direction])]
         IN  IF jfile.direction = "outbound"
             THEN [detailed EXCEPT !.published_events = Append(@, jfile.class_name)]
             ELSE IF jfile.direction = "inbound"
             THEN [detailed EXCEPT !.consumed_events = Append(@, jfile.class_name)]
             ELSE detailed

\* for match in re.finditer(...): if event_name not in events: events.append(event_name)
RECURSIVE AppendNew(_, _)
AppendNew(events, matches) ==
    IF matches = <<>> THEN events
    ELSE AppendNew(IF Head(matches) \in Range(events) THEN events
                   ELSE Append(events, Head(matches)),
                   Tail(matches))

\* _process_listener_file
ProcessListenerFile(st, jfile) ==
    [st EXCEPT !.consumed_events = AppendNew(@, jfile.matches)]

\* _process_producer_file
ProcessProducerFile(st, jfile) ==
    [st EXCEPT !.published_events = AppendNew(@, jfile.matches)]

\* the body of "for jfile in java_files" for the file at position i: the try
\* block, and the except clause that prints the warning
TryFile(st, jfile, i) ==
    IF ~jfile.readable THEN [st EXCEPT !.warnings = Append(@, i)]
    ELSE CASE jfile.role = "event"    -> ProcessEventFile(st, jfile)
           [] jfile.role = "listener" -> ProcessListenerFile(st, jfile)
           [] jfile.role = "producer" -> ProcessProducerFile(st, jfile)
           [] OTHER                   -> st

\* the loop leaving at the first file that fails
RECURSIVE AnalyzeLoop_Abort(_, _, _)
AnalyzeLoop_Abort(st, files, i) ==
    IF i > Len(files) \/ st.warnings # <<>> THEN st
    ELSE AnalyzeLoop_Abort(TryFile(st, files[i], i), files, i + 1)

\* "for jfile in java_files" from position i on
RECURSIVE AnalyzeLoop(_, _, _)
AnalyzeLoop(st, files, i) ==
    IF i > Len(files) THEN st
    ELSE AnalyzeLoop(TryFile(st, files[i], i), files, i + 1)

\* sorted(list(events)): the list sorted, duplicates kept
RECURSIVE SortedSet_List(_)
SortedSet_List(events) ==
    IF events = <<>> THEN <<>>
    ELSE LET i == CHOOSE k \in DOMAIN events :
                      \A j \in DOMAIN events : ~StrLess(events[j], events[k])
         IN  <<events[i]>> \o SortedSet_List(SubSeq(events, 1, i - 1)
                                              \o SubSeq(events, i + 1, Len(events)))

\* sorted(list(set(events)))
SortedSet(events) == SortedNames(Range(events))

\* _build_service_info: the keys that come from the files
BuildServiceInfo(st) ==
    [status    |-> "returned",
     publishes |-> SortedSet(st.published_events),
     consumes  |-> SortedSet(st.consumed_events),
     events    |-> st.event_details]

NoServiceInfo == [status |-> "none"]

\* rglob("*.java") lists one more file of the service
ListJavaFile(f) ==
    /\ pc = "listing"
    /\ Len(java_files) < MaxFiles
    /\ java_files' = Append(java_files, f)
    /\ UNCHANGED <<pc, published_events, consumed_events, event_details, warnings,
                   service_info>>
    /\ UNCHANGED <<flowData, catalogVars, schemaVars, extractVars, bulkVars, demoVars>>

\* ServiceAnalyzer.analyze on the files listed
Analyze ==
    /\ pc = "listing"
    /\ LET st == AnalyzeLoop(NewAnalyzer, java_files, 1)
       IN  /\ published_events' = st.published_events
           /\ consumed_events' = st.consumed_events
           /\ event_details' = st.event_details
           /\ warnings' = st.warnings
           /\ service_info' = BuildServiceInfo(st)
    /\ pc' = "analyzed"
    /\ UNCHANGED java_files
    /\ UNCHANGED <<flowData, catalogVars, schemaVars, extractVars, bulkVars, demoVars>>

InitAnalyzerIdle ==
    /\ java_files = <<>>
    /\ published_events = <<>>
    /\ consumed_events = <<>>
    /\ event_details = <<>>
    /\ warnings = <<>>
    /\ service_info = NoServiceInfo

(***************************************************************************)
(* extract_schemas_from_java_v3: type resolution, generate_avro_schema,    *)
(* extract_schemas                                                         *)
(***************************************************************************)
\* Avro types. A custom type definition is a dict object that the cache and
\* every place using the type share: Obj(T) is the object cached under the
\* Java type name T, its content is the cache entry. NameRef is the string
\* deduplicate_types puts in place of a repeated definition.
Prim(n)       == [kind |-> "prim", name |-> n, of |-> <<>>]
Array(t)      == [kind |-> "array", name |-> "", of |-> <<t>>]
Union(t)      == [kind |-> "union", name |-> "", of |-> <<Prim("null"), t>>]
Obj(T)        == [kind |-> "obj", name |-> T, of |-> <<>>]
NameRef(full) == [kind |-> "ref", name |-> full, of |-> <<>>]
Field(n, t)   == [kind |-> "field", name |-> n, of |-> <<t>>]

\* the Java types of the payload records of the model
JavaTypes == {"String", "Status", "Unit", "List<Status>", "Money", "Node", "Ping", "Pong"}

\* re.match(r'(\w+)<(.+)>', java_type) with container List, on these types
IsList(java_type) == java_type = "List<Status>"
ElementType(java_type) == CASE java_type = "List<Status>" -> "Status"

\* type_map, restricted to the base types of the model
TypeMap == [t \in {"String"} |-> Prim("string")]

\* The source directory: what find_type_file, is_value_object_enum and
\* parse_simple_record find for a custom type. Status is an enum-like value
\* object, Unit a record with a Status component, Node a record with a
\* component of its own type, Ping a record with a Pong component and Pong a
\* record with a Ping component, Money has no file.
TypeFile(java_type) ==
    CASE java_type = "Status" -> [kind |-> "enum", params |-> <<>>]
      [] java_type = "Unit" ->
             [kind |-> "record", params |-> <<[name |-> "status", type |-> "Status"]>>]
      [] java_type = "Node" ->
             [kind |-> "record", params |-> <<[name |-> "next", type |-> "Node"]>>]
      [] java_type = "Ping" ->
             [kind |-> "record", params |-> <<[name |-> "pong", type |-> "Pong"]>>]
      [] java_type = "Pong" ->
             [kind |-> "record", params |-> <<[name |-> "ping", type |-> "Ping"]>>]
      [] OTHER -> [kind |-> "none", params |-> <<>>]

\* get_type_full_name of the definition of T: every type file of the model
\* declares the package "vo"
FullName(T) == "vo." \o T

EmptyCache == <<>>

\* resolve_java_type_to_avro(java_type, source_dir, processed, use_references=False)
\* with type_definitions_cache = cache: the type returned and the cache
\* afterwards. stack holds the records whose parse_simple_record is running:
\* a record met again before it is cached is parsed again with the same
\* cache, without end, until Python raises RecursionError (ok = FALSE).
\* The "processed" test never fires: every caller passes a fresh set.
RECURSIVE resolve_java_type_to_avro(_, _, _)
RECURSIVE parse_simple_record(_, _, _, _)

\* "type_definitions_cache[java_type] = record_def; return record_def" once
\* parse_simple_record has returned p
RecordResolved(java_type, p) ==
    IF ~p.ok
    THEN [ok |-> FALSE, type |-> Prim("string"), cache |-> p.cache]
    ELSE [ok |-> TRUE, type |-> Obj(java_type),
          cache |-> DictSet(p.cache, java_type,
                            [kind |-> "record", name |-> java_type, of |-> p.fields])]

resolve_java_type_to_avro(java_type, cache, stack) ==
    IF IsList(java_type)
    THEN [resolve_java_type_to_avro(ElementType(java_type), cache, stack)
              EXCEPT !.type = Array(@)]
    ELSE IF java_type \in DOMAIN TypeMap
    THEN [ok |-> TRUE, type |-> TypeMap[java_type], cache |-> cache]
    ELSE IF java_type \in DOMAIN cache
    THEN [ok |-> TRUE, type |-> Obj(java_type), cache |-> cache]
    ELSE CASE TypeFile(java_type).kind = "enum" ->
                  [ok |-> TRUE, type |-> Obj(java_type),
                   cache |-> DictSet(cache, java_type,
                                     [kind |-> "enum", name |-> java_type, of |-> <<>>])]
           [] TypeFile(java_type).kind = "record" ->
                  IF java_type \in stack
                  THEN [ok |-> FALSE, type |-> Prim("string"), cache |-> cache]
                  ELSE RecordResolved(java_type,
                           parse_simple_record(TypeFile(java_type).params, cache,
                                               stack \cup {java_type}, <<>>))
           [] OTHER -> [ok |-> TRUE, type |-> Prim("string"), cache |-> cache]

\* one parameter of parse_simple_record resolved as r: the field is appended
\* and the loop goes on
ParamResolved(params, stack, fields, r) ==
    IF ~r.ok THEN [ok |-> FALSE, fields |-> fields, cache |-> r.cache]
    ELSE parse_simple_record(Tail(params), r.cache, stack,
                             Append(fields, Field(Head(params).name, r.type)))

\* the parameter loop of parse_simple_record: fields holds the fields built so far
parse_simple_record(params, cache, stack, fields) ==
    IF params = <<>> THEN [ok |-> TRUE, fields |-> fields, cache |-> cache]
    ELSE ParamResolved(params, stack, fields,
                       resolve_java_type_to_avro(Head(params).type, cache, stack))

\* java_type_to_avro_with_resolution
java_type_to_avro_with_resolution(java_type, required, cache) ==
    [resolve_java_type_to_avro(java_type, cache, {})
         EXCEPT !.type = IF required THEN @ ELSE Union(@)]

\* mark_types_as_defined: the full names it adds to types_defined_in_schema
RECURSIVE mark_types_as_defined(_, _)
mark_types_as_defined(t, cache) ==
    CASE t.kind = "obj" ->
             {FullName(t.name)}
             \cup UNION {mark_types_as_defined(cache[t.name].of[k].of[1], cache)
                           : k \in DOMAIN cache[t.name].of}
      [] t.kind \in {"array", "union"} ->
             UNION {mark_types_as_defined(t.of[k], cache) : k \in DOMAIN t.of}
      [] OTHER -> {}

deduplicate_types_Never(t, cache, seen) == [type |-> t, cache |-> cache, seen |-> seen]

\* deduplicate_types(avro_type, seen_types) on the objects of cache: the value
\* returned, the objects as the call leaves them, seen_types afterwards
RECURSIVE deduplicate_types(_, _, _)
RECURSIVE DeduplicateFields(_, _, _, _)
deduplicate_types(t, cache, seen) ==
    CASE t.kind = "obj" ->
             IF FullName(t.name) \in seen
             THEN [type |-> NameRef(FullName(t.name)), cache |-> cache, seen |-> seen]
             ELSE DeduplicateFields(t, 1, cache, seen \cup {FullName(t.name)})
      [] t.kind = "array" ->
             [deduplicate_types(t.of[1], cache, seen) EXCEPT !.type = Array(@)]
      [] t.kind = "union" ->
             [deduplicate_types(t.of[2], cache, seen) EXCEPT !.type = Union(@)]
      [] OTHER -> [type |-> t, cache |-> cache, seen |-> seen]

\* field['type'] = r.type for field k of the object t, then the next field
FieldDeduplicated(t, k, r) ==
    DeduplicateFields(t, k + 1,
                      [r.cache EXCEPT ![t.name].of[k] = Field(@.name, r.type)],
                      r.seen)

\* "for field in avro_type['fields']: field['type'] = deduplicate_types(...)"
\* on the object t, from field k on; the object itself is returned
DeduplicateFields(t, k, cache, seen) ==
    IF k > Len(cache[t.name].of) THEN [type |-> t, cache |-> cache, seen |-> seen]
    ELSE FieldDeduplicated(t, k,
             deduplicate_types(cache[t.name].of[k].of[1], cache, seen))

\* what json.dump writes for a type: every object by its content
RECURSIVE Serialized(_, _)
Serialized(t, cache) ==
    CASE t.kind = "obj" ->
             [kind |-> cache[t.name].kind, name |-> FullName(t.name),
              of |-> [k \in DOMAIN cache[t.name].of |->
                         Field(cache[t.name].of[k].name,
                               Serialized(cache[t.name].of[k].of[1], cache))]]
      [] t.kind \in {"array", "union"} ->
             [t EXCEPT !.of = [k \in DOMAIN t.of |-> Serialized(t.of[k], cache)]]
      [] OTHER -> t

\* the caches as a call that does not clear them starts with
ClearedCaches_Kept(caches) == caches

\* "type_definitions_cache = {}; types_defined_in_schema = set()"
ClearedCaches(caches) ==
    [type_definitions_cache |-> EmptyCache, types_defined_in_schema |-> {}]

\* first pass of generate_avro_schema over record.fields
RECURSIVE FirstPass(_, _, _)

\* the first field resolved as r: mark_types_as_defined, append, next field
FieldResolved(fields, caches, out, r) ==
    IF ~r.ok
    THEN [ok |-> FALSE, fields |-> out,
          caches |-> [caches EXCEPT !.type_definitions_cache = r.cache]]
    ELSE FirstPass(Tail(fields),
                   [type_definitions_cache |-> r.cache,
                    types_defined_in_schema |->
                        caches.types_defined_in_schema
                        \cup mark_types_as_defined(r.type, r.cache)],
                   Append(out, Field(Head(fields).name, r.type)))

FirstPass(fields, caches, out) ==
    IF fields = <<>> THEN [ok |-> TRUE, fields |-> out, caches |-> caches]
    ELSE FieldResolved(fields, caches, out,
             java_type_to_avro_with_resolution(Head(fields).java_type,
                                               Head(fields).required,
                                               caches.type_definitions_cache))

\* second pass: "for field in schema['fields']" with the shared seen_types
RECURSIVE SecondPass(_, _, _, _)

\* field["type"] = r.type for field k of the schema, then the next field
SchemaFieldDeduplicated(fields, k, r) ==
    SecondPass([fields EXCEPT ![k] = Field(@.name, r.type)], k + 1, r.cache, r.seen)

SecondPass(fields, k, cache, seen) ==
    IF k > Len(fields) THEN [fields |-> fields, cache |-> cache]
    ELSE SchemaFieldDeduplicated(fields, k,
             deduplicate_types(fields[k].of[1], cache, seen))

\* the schema generate_avro_schema returns after the second pass, as it is
\* serialized, and the module globals it leaves
SchemaReturned(record, caches, second) ==
    [ok |-> TRUE,
     schema |-> [kind |-> "record", name |-> record.name \o "Payload",
                 of |-> [k \in DOMAIN second.fields |->
                            Field(second.fields[k].name,
                                  Serialized(second.fields[k].of[1], second.cache))]],
     caches |-> [caches EXCEPT !.type_definitions_cache = second.cache]]

\* generate_avro_schema after its first pass
FirstPassDone(record, first) ==
    IF ~first.ok
    THEN [ok |-> FALSE, schema |-> Prim("null"), caches |-> first.caches]
    ELSE SchemaReturned(record, first.caches,
             SecondPass(first.fields, 1, first.caches.type_definitions_cache, {}))

\* generate_avro_schema(record, source_dir) called with the module globals
\* holding caches: whether it returns, the schema as it is serialized, the
\* module globals afterwards
generate_avro_schema(record, caches) ==
    FirstPassDone(record, FirstPass(record.fields, ClearedCaches(caches), <<>>))

\* generate_event_envelope_schema: the parts that vary with the payload
generate_event_envelope_schema(event_type, payload_schema) ==
    [kind |-> "record", name |-> event_type,
     of |-> <<Field("payload", payload_schema)>>]

\* f"Apheresis Plasma{record.name.replace('Product', 'Product ')}Event".replace(" ", "")
EventTypeName(record_name) == "ApheresisPlasma" \o record_name \o "Event"

\* the fields of a payload record, as parse_java_record returns them
PayloadFields ==
    {[name |-> "f", java_type |-> "String", required |-> TRUE],
     [name |-> "f", java_type |-> "Status", required |-> FALSE],
     [name |-> "f", java_type |-> "Unit", required |-> TRUE],
     [name |-> "f", java_type |-> "List<Status>", required |-> TRUE],
     [name |-> "f", java_type |-> "Money", required |-> TRUE],
     [name |-> "f", java_type |-> "Node", required |-> TRUE],
     [name |-> "f", java_type |-> "Ping", required |-> TRUE]}

\* field k of a record is named f<k>
Renamed(fields) ==
    [k \in DOMAIN fields |->
        [fields[k] EXCEPT !.name = IF k = 1 THEN "f1" ELSE "f2"]]

\* A payload file, by what parse_java_record does on it: it returns a
\* JavaRecord (parse = "record"), returns None (parse = "none", no record
\* declaration), or raises (parse = "raises": open fails or the file is not
\* valid UTF-8).
PayloadFileSet ==
    {[parse |-> "record", name |-> "ProductCreated", fields |-> Renamed(fs)]
        : fs \in UNION {[1..n -> PayloadFields] : n \in 1..2}}
    \cup {[parse |-> "none", name |-> "", fields |-> <<>>],
          [parse |-> "raises", name |-> "", fields |-> <<>>]}

\* the rest of the try block once generate_avro_schema has ended as g: the
\* envelope, the file written, the counter
RecordConverted(run, payload_file, i, g) ==
    IF ~g.ok
    THEN [run EXCEPT !.failed = @ + 1, !.caches = g.caches]
    ELSE [caches    |-> g.caches,
          generated |-> run.generated + 1,
          failed    |-> run.failed,
          files     |-> Append(run.files,
                          [position |-> i,
                           file |-> EventTypeName(payload_file.name) \o ".avsc",
                           schema |-> generate_event_envelope_schema(
                                         EventTypeName(payload_file.name), g.schema)])]

\* the body of "for payload_file in payload_files" for the file at position i;
\* run = [caches, generated, failed, files]
ExtractOne(run, payload_file, i) ==
    IF payload_file.parse = "raises" THEN [run EXCEPT !.failed = @ + 1]
    ELSE IF payload_file.parse = "none" THEN run
    ELSE RecordConverted(run, payload_file, i,
                         generate_avro_schema(payload_file, run.caches))

RECURSIVE ExtractLoop(_, _, _)
ExtractLoop(run, files, i) ==
    IF i > Len(files) THEN run
    ELSE ExtractLoop(ExtractOne(run, files[i], i), files, i + 1)

\* the module globals after import, the counters before the loop
NewRun ==
    [caches    |-> [type_definitions_cache |-> EmptyCache,
                    types_defined_in_schema |-> {}],
     generated |-> 0,
     failed    |-> 0,
     files     |-> <<>>]

\* source_dir.glob("**/domain/event/payload/*.java") lists one more file
FindPayloadFile(f) ==
    /\ pc = "globbing"
    /\ Len(payload_files) < MaxPayloads
    /\ payload_files' = Append(payload_files, f)
    /\ UNCHANGED <<pc, type_definitions_cache, types_defined_in_schema,
                   schemas_generated, schemas_failed, schema_files>>
    /\ UNCHANGED <<flowData, catalogVars, analyzerVars, extractVars, bulkVars, demoVars>>

\* the module globals, the counters and the files as the loop leaves them
LoopDone(run) ==
    /\ type_definitions_cache' = run.caches.type_definitions_cache
    /\ types_defined_in_schema' = run.caches.types_defined_in_schema
    /\ schemas_generated' = run.generated
    /\ schemas_failed' = run.failed
    /\ schema_files' = run.files

\* extract_schemas on the files listed
ExtractSchemas ==
    /\ pc = "globbing"
    /\ LoopDone(ExtractLoop(NewRun, payload_files, 1))
    /\ pc' = "extracted"
    /\ UNCHANGED payload_files
    /\ UNCHANGED <<flowData, catalogVars, analyzerVars, extractVars, bulkVars, demoVars>>

InitSchemasIdle ==
    /\ payload_files = <<>>
    /\ type_definitions_cache = EmptyCache
    /\ types_defined_in_schema = {}
    /\ schemas_generated = 0
    /\ schemas_failed = 0
    /\ schema_files = <<>>

(***************************************************************************)
(* extract_with_consumers.py and extract_all_biopro_repos.py: main         *)
(*                                                                         *)
(* A service of REPOS is [name, exists, event_files, listener_files]:      *)
(* exists tells whether its directory is there; event_files holds, in      *)
(* os.walk order, the event name extract_event_info reads from each event  *)
(* file; listener_files holds, in os.walk order, the event each listener   *)
(* file is about (XListener.java in a listener directory, with one         *)
(* @KafkaListener method taking an XEvent).                                *)
(* event_flows is a dict: a sequence of [event, publishers, consumers]     *)
(* entries in insertion order, one per key.                                *)
(***************************************************************************)
ExtractServiceNames == {"orders", "billing"}

\* event_name in event_flows
HasKey(flows, event_name) == \E i \in DOMAIN flows : flows[i].event = event_name

KeyIndex(flows, event_name) == CHOOSE i \in DOMAIN flows : flows[i].event = event_name

\* "if event_name not in event_flows: event_flows[event_name] = {...}"
WithKey(flows, event_name) ==
    IF HasKey(flows, event_name) THEN flows
    ELSE Append(flows, [event |-> event_name, publishers |-> <<>>, consumers |-> <<>>])

\* the keys of event_flows in iteration order, as json.dump writes them
KeyOrder(flows) == [i \in DOMAIN flows |-> flows[i].event]

\* extract_all_biopro_repos: event_flows[...]['publishers'].append(service_name)
AppendPublisher(flows, event_name, service_name) ==
    [WithKey(flows, event_name)
        EXCEPT ![KeyIndex(WithKey(flows, event_name), event_name)].publishers =
                   Append(@, service_name)]

\* extract_all_biopro_repos: event_flows[...]['consumers'].append(service_name)
AppendConsumer(flows, event_name, service_name) ==
    [WithKey(flows, event_name)
        EXCEPT ![KeyIndex(WithKey(flows, event_name), event_name)].consumers =
                   Append(@, service_name)]

TrackPublisher_Always(flows, event_name, service_name) ==
    AppendPublisher(flows, event_name, service_name)

\* extract_with_consumers: "if service_name not in ...['publishers']: append"
TrackPublisher(flows, event_name, service_name) ==
    [WithKey(flows, event_name)
        EXCEPT ![KeyIndex(WithKey(flows, event_name), event_name)].publishers =
                   IF service_name \in Range(@) THEN @ ELSE Append(@, service_name)]

\* extract_with_consumers: "if service_name not in ...['consumers']: append"
TrackConsumer(flows, event_name, service_name) ==
    [WithKey(flows, event_name)
        EXCEPT ![KeyIndex(WithKey(flows, event_name), event_name)].consumers =
                   IF service_name \in Range(@) THEN @ ELSE Append(@, service_name)]

\* extract_with_consumers: "for event in service_events" of one service
RECURSIVE TrackPublishers(_, _, _)
TrackPublishers(flows, service_events, service_name) ==
    IF service_events = <<>> THEN flows
    ELSE TrackPublishers(TrackPublisher(flows, Head(service_events), service_name),
                         Tail(service_events), service_name)

\* extract_with_consumers: "for event_name in consumed_event_names" of one service
RECURSIVE TrackConsumers(_, _, _)
TrackConsumers(flows, consumed_event_names, service_name) ==
    IF consumed_event_names = <<>> THEN flows
    ELSE TrackConsumers(TrackConsumer(flows, Head(consumed_event_names), service_name),
                        Tail(consumed_event_names), service_name)

\* extract_all_biopro_repos: "for event in service_events" of one service
RECURSIVE AppendPublishers(_, _, _)
AppendPublishers(flows, service_events, service_name) ==
    IF service_events = <<>> THEN flows
    ELSE AppendPublishers(AppendPublisher(flows, Head(service_events), service_name),
                          Tail(service_events), service_name)

\* extract_all_biopro_repos: "for consumer in service_consumers" of one service
RECURSIVE AppendConsumers(_, _, _)
AppendConsumers(flows, service_consumers, service_name) ==
    IF service_consumers = <<>> THEN flows
    ELSE AppendConsumers(AppendConsumer(flows, Head(service_consumers), service_name),
                         Tail(service_consumers), service_name)

\* the orders in which list(a_set) can enumerate the set: str hashes differ
\* from one interpreter run to the next, and the order follows the hashes
RECURSIVE Enumerations(_)
Enumerations(a_set) ==
    IF a_set = {} THEN {<<>>}
    ELSE UNION {{<<x>> \o rest : rest \in Enumerations(a_set \ {x})} : x \in a_set}

\* service_consumed_events of a service: the set of the events of its listeners
ServiceConsumedEvents(service) == Range(service.listener_files)

\* one choice of consumed_event_names = list(service_consumed_events) for each
\* service of the list
RECURSIVE ConsumedOrders(_)
ConsumedOrders(services) ==
    IF services = <<>> THEN {<<>>}
    ELSE {<<names>> \o rest :
              names \in Enumerations(ServiceConsumedEvents(Head(services))),
              rest \in ConsumedOrders(Tail(services))}

\* extract_with_consumers.main: the loop over the services, orders[i] being
\* the consumed_event_names of service i; a service whose directory is
\* missing is skipped
RECURSIVE WithConsumersLoop(_, _, _)
WithConsumersLoop(flows, services, orders) ==
    IF services = <<>> THEN flows
    ELSE IF ~Head(services).exists
    THEN WithConsumersLoop(flows, Tail(services), Tail(orders))
    ELSE WithConsumersLoop(
             TrackConsumers(
                 TrackPublishers(flows, Head(services).event_files, Head(services).name),
                 Head(orders), Head(services).name),
             Tail(services), Tail(orders))

\* extract_all_biopro_repos.main: the loop over the services
RECURSIVE AllReposLoop(_, _)
AllReposLoop(flows, services) ==
    IF services = <<>> THEN flows
    ELSE IF ~Head(services).exists
    THEN AllReposLoop(flows, Tail(services))
    ELSE AllReposLoop(
             AppendConsumers(
                 AppendPublishers(flows, Head(services).event_files, Head(services).name),
                 Head(services).listener_files, Head(services).name),
             Tail(services))

\* services plus files found so far
RECURSIVE WalkSize(_)
WalkSize(services) ==
    IF services = <<>> THEN 0
    ELSE 1 + Len(Head(services).event_files) + Len(Head(services).listener_files)
           + WalkSize(Tail(services))

\* the next service of REPOS; its directory exists or not
FindService(service_name, exists) ==
    /\ pc = "walking"
    /\ WalkSize(service_dirs) < MaxWalk
    /\ service_dirs' = Append(service_dirs,
                              [name |-> service_name, exists |-> exists,
                               event_files |-> <<>>, listener_files |-> <<>>])
    /\ UNCHANGED <<pc, inventory_flows>>
    /\ UNCHANGED <<flowData, catalogVars, analyzerVars, schemaVars, bulkVars, demoVars>>

\* find_event_files meets one more event file in the last service
FindEventFile(event_name) ==
    /\ pc = "walking"
    /\ service_dirs # <<>>
    /\ service_dirs[Len(service_dirs)].exists
    /\ WalkSize(service_dirs) < MaxWalk
    /\ service_dirs' = [service_dirs EXCEPT ![Len(service_dirs)].event_files =
                                                Append(@, event_name)]
    /\ UNCHANGED <<pc, inventory_flows>>
    /\ UNCHANGED <<flowData, catalogVars, analyzerVars, schemaVars, bulkVars, demoVars>>

\* find_listener_files / find_kafka_listeners meets one more listener file
FindListenerFile(event_name) ==
    /\ pc = "walking"
    /\ service_dirs # <<>>
    /\ service_dirs[Len(service_dirs)].exists
    /\ WalkSize(service_dirs) < MaxWalk
    /\ service_dirs' = [service_dirs EXCEPT ![Len(service_dirs)].listener_files =
                                                Append(@, event_name)]
    /\ UNCHANGED <<pc, inventory_flows>>
    /\ UNCHANGED <<flowData, catalogVars, analyzerVars, schemaVars, bulkVars, demoVars>>

\* extract_with_consumers.main on the services found
MainWithConsumers ==
    /\ pc = "walking"
    /\ \E orders \in ConsumedOrders(service_dirs) :
           inventory_flows' = WithConsumersLoop(<<>>, service_dirs, orders)
    /\ pc' = "with_consumers"
    /\ UNCHANGED service_dirs
    /\ UNCHANGED <<flowData, catalogVars, analyzerVars, schemaVars, bulkVars, demoVars>>

\* extract_all_biopro_repos.main on the services found
MainAllRepos ==
    /\ pc = "walking"
    /\ inventory_flows' = AllReposLoop(<<>>, service_dirs)
    /\ pc' = "all_repos"
    /\ UNCHANGED service_dirs
    /\ UNCHANGED <<flowData, catalogVars, analyzerVars, schemaVars, bulkVars, demoVars>>

InitExtractIdle ==
    /\ service_dirs = <<>>
    /\ inventory_flows = <<>>

(***************************************************************************)
(* register_schemas.py and register_eventcatalog_schemas.py: main          *)
(*                                                                         *)
(* A schema file is [payload_named, valid_json]: whether its stem contains *)
(* "Payload", and whether json.load accepts its content. An HTTP status of *)
(* 0 stands for a request that raised a RequestException. An answer whose  *)
(* body the script reads is [status, body], body being the kind of the     *)
(* body: "object" a JSON object, "subjects" a JSON list of strings,        *)
(* "not_json" no JSON at all, "not_object" JSON that is no object (a list, *)
(* null, a string, a number), "not_subjects" JSON that is null, a number   *)
(* or a list holding one; "none" when there is no answer.                  *)
(***************************************************************************)
AvscFiles == [payload_named : BOOLEAN, valid_json : BOOLEAN]

Answer(status, body) == [status |-> status, body |-> body]
NoAnswer == Answer(-1, "none")

\* answers to GET /subjects of the connectivity check
CheckStatuses == {0, 200, 204, 500}

\* answers to POST /subjects/<subject>/versions
PostAnswers ==
    {Answer(0, "none"), Answer(200, "object"), Answer(200, "not_json"),
     Answer(200, "not_object"), Answer(201, "object"), Answer(201, "not_object"),
     Answer(500, "object")}

\* answers to GET /subjects after the loop
SubjectsAnswers ==
    {Answer(0, "none"), Answer(200, "subjects"), Answer(200, "not_json"),
     Answer(200, "not_subjects"), Answer(500, "object")}

\* register_schema of either script after the POST was answered: the
\* success branch is taken for 200 and 201 and reads the body with
\* response.json() and result.get('id', ...); a body that is no JSON or no
\* object raises there, inside the try, and the except clauses return False
Registered(answer) == answer.status \in {200, 201} /\ answer.body = "object"

\* register_schemas.check_schema_registry: raise_for_status accepts every
\* status below 400
check_schema_registry(status) == status # 0 /\ status < 400

\* register_eventcatalog_schemas.check_schema_registry: only 200 counts
check_schema_registry_catalog(status) == status = 200

\* register_schemas.register_schema(registry_url, schema_file) when the
\* registry gives answer to a POST: whether the POST is sent, and the bool
\* of the pair returned
register_schema_file(schema_file, answer) ==
    IF ~schema_file.valid_json THEN [posted |-> FALSE, result |-> "False"]
    ELSE [posted |-> TRUE,
          result |-> IF Registered(answer) THEN "True" ELSE "False"]

register_schema_catalog_PostAll(schema_file, answer) ==
    register_schema_file(schema_file, answer)

\* register_eventcatalog_schemas.register_schema(schema_file): result is
\* "None" for a payload-only schema, which is not read and not posted
register_schema_catalog(schema_file, answer) ==
    IF schema_file.payload_named THEN [posted |-> FALSE, result |-> "None"]
    ELSE IF ~schema_file.valid_json THEN [posted |-> FALSE, result |-> "False"]
    ELSE [posted |-> TRUE,
          result |-> IF Registered(answer) THEN "True" ELSE "False"]

\* the entry of attempts for the file at position i
Attempt(i, r, answer) ==
    [position |-> i, posted |-> r.posted,
     status |-> IF r.posted THEN answer.status ELSE -1,
     body |-> IF r.posted THEN answer.body ELSE "none",
     result |-> r.result]

\* "0 if failed == 0 else 1"
ExitStatus(failed_count) == IF failed_count = 0 THEN 0 ELSE 1

\* register_schemas.verify_registration: a request that raises, a status of
\* 400 or more (raise_for_status) and a body that is no JSON (response.json
\* raises the JSONDecodeError of requests) are RequestExceptions and are
\* caught; "[s for s in subjects if any(event in s ...)]" raises a
\* TypeError, which is not caught, when subjects is null or a number or holds
\* a number
verify_registration(answer) ==
    IF answer.status = 0 \/ answer.status >= 400 \/ answer.body = "not_json"
    THEN "could_not_verify"
    ELSE IF answer.body = "not_subjects" THEN "TypeError"
    ELSE "listed"

\* the exit status of register_schemas.main after the loop: an uncaught
\* exception ends the process with status 1 before sys.exit is reached
ExitStatusVerified(failed_count, answer) ==
    IF verify_registration(answer) = "TypeError" THEN 1 ELSE ExitStatus(failed_count)

\* register_schemas.main: "if not check_schema_registry(args.registry): sys.exit(1)"
CheckRegistry(status) ==
    /\ pc = "rs_check"
    /\ IF check_schema_registry(status)
       THEN pc' = "rs_find" /\ UNCHANGED exit_status
       ELSE pc' = "rs_exit" /\ exit_status' = 1
    /\ UNCHANGED <<schema_file_list, reg_idx, attempts, registered, failed, skipped, verified>>
    /\ UNCHANGED <<flowData, catalogVars, analyzerVars, schemaVars, extractVars, demoVars>>

\* register_schemas.main: find_schema_files returns files ([] when the
\* directory is missing or holds no .avsc file); "if not schema_files: sys.exit(1)"
FindSchemaFiles(files) ==
    /\ pc = "rs_find"
    /\ schema_file_list' = files
    /\ IF files = <<>>
       THEN pc' = "rs_exit" /\ exit_status' = 1
       ELSE pc' = "rs_loop" /\ UNCHANGED exit_status
    /\ UNCHANGED <<reg_idx, attempts, registered, failed, skipped, verified>>
    /\ UNCHANGED <<flowData, catalogVars, analyzerVars, schemaVars, extractVars, demoVars>>

\* register_schemas.main: one iteration of "for schema_file in schema_files"
RegisterSchemaFile(answer) ==
    /\ pc = "rs_loop"
    /\ reg_idx < Len(schema_file_list)
    /\ LET r == register_schema_file(schema_file_list[reg_idx + 1], answer)
       IN  /\ attempts' = Append(attempts, Attempt(reg_idx + 1, r, answer))
           /\ registered' = IF r.result = "True" THEN registered + 1 ELSE registered
           /\ failed' = IF r.result = "True" THEN failed ELSE failed + 1
    /\ reg_idx' = reg_idx + 1
    /\ UNCHANGED <<pc, schema_file_list, skipped, verified, exit_status>>
    /\ UNCHANGED <<flowData, catalogVars, analyzerVars, schemaVars, extractVars, demoVars>>

\* register_schemas.main after the loop: summary, verify_registration (which
\* gets answer to its GET /subjects), "sys.exit(0 if failed == 0 else 1)"
ExitRegistration(answer) ==
    /\ pc = "rs_loop"
    /\ reg_idx = Len(schema_file_list)
    /\ verified' = answer
    /\ exit_status' = ExitStatusVerified(failed, answer)
    /\ pc' = "rs_exit"
    /\ UNCHANGED <<schema_file_list, reg_idx, attempts, registered, failed, skipped>>
    /\ UNCHANGED <<flowData, catalogVars, analyzerVars, schemaVars, extractVars, demoVars>>

\* register_eventcatalog_schemas.main: "if not check_schema_registry(): return 1"
CheckRegistryCatalog(status) ==
    /\ pc = "ec_check"
    /\ IF check_schema_registry_catalog(status)
       THEN pc' = "ec_find" /\ UNCHANGED exit_status
       ELSE pc' = "ec_exit" /\ exit_status' = 1
    /\ UNCHANGED <<schema_file_list, reg_idx, attempts, registered, failed, skipped, verified>>
    /\ UNCHANGED <<flowData, catalogVars, analyzerVars, schemaVars, extractVars, demoVars>>

\* register_eventcatalog_schemas.main: "if not schema_files: return 1"
FindSchemaFilesCatalog(files) ==
    /\ pc = "ec_find"
    /\ schema_file_list' = files
    /\ IF files = <<>>
       THEN pc' = "ec_exit" /\ exit_status' = 1
       ELSE pc' = "ec_loop" /\ UNCHANGED exit_status
    /\ UNCHANGED <<reg_idx, attempts, registered, failed, skipped, verified>>
    /\ UNCHANGED <<flowData, catalogVars, analyzerVars, schemaVars, extractVars, demoVars>>

\* register_eventcatalog_schemas.main: one iteration of the loop
RegisterSchemaFileCatalog(answer) ==
    /\ pc = "ec_loop"
    /\ reg_idx < Len(schema_file_list)
    /\ LET r == register_schema_catalog(schema_file_list[reg_idx + 1], answer)
       IN  /\ attempts' = Append(attempts, Attempt(reg_idx + 1, r, answer))
           /\ skipped' = IF r.result = "None" THEN skipped + 1 ELSE skipped
           /\ registered' = IF r.result = "True" THEN registered + 1 ELSE registered
           /\ failed' = IF r.result = "False" THEN failed + 1 ELSE failed
    /\ reg_idx' = reg_idx + 1
    /\ UNCHANGED <<pc, schema_file_list, verified, exit_status>>
    /\ UNCHANGED <<flowData, catalogVars, analyzerVars, schemaVars, extractVars, demoVars>>

\* register_eventcatalog_schemas.main after the loop: summary,
\* show_registered_subjects (which gets answer to its GET /subjects and
\* catches every exception), "return 0 if failed == 0 else 1"
ExitRegistrationCatalog(answer) ==
    /\ pc = "ec_loop"
    /\ reg_idx = Len(schema_file_list)
    /\ verified' = answer
    /\ exit_status' = ExitStatus(failed)
    /\ pc' = "ec_exit"
    /\ UNCHANGED <<schema_file_list, reg_idx, attempts, registered, failed, skipped>>
    /\ UNCHANGED <<flowData, catalogVars, analyzerVars, schemaVars, extractVars, demoVars>>

InitBulkIdle ==
    /\ schema_file_list = <<>>
    /\ reg_idx = 0
    /\ attempts = <<>>
    /\ registered = 0
    /\ failed = 0
    /\ skipped = 0
    /\ verified = NoAnswer
    /\ exit_status = -1

(***************************************************************************)
(* generate_demo_events.py: StatsTracker, EventClient.send_event,          *)
(* generate_events, main                                                   *)
(***************************************************************************)
\* the services of EventClient.services and StatsTracker.by_service, in the
\* order generate_events builds their events
DemoServices == <<"orders", "manufacturing", "collections">>

\* a service name that is no key of StatsTracker.by_service
OtherService == "inventory"

\* StatsTracker.__init__
NewStats ==
    [total |-> 0,
     by_service |-> [sv \in Range(DemoServices) |->
                        [valid |-> 0, invalid |-> 0, success |-> 0, failed |-> 0]]]

\* the counters of one service after record(service, is_valid, success)
Counted(counters, is_valid, success) ==
    [valid   |-> IF is_valid THEN counters.valid + 1 ELSE counters.valid,
     invalid |-> IF is_valid THEN counters.invalid ELSE counters.invalid + 1,
     success |-> IF success THEN counters.success + 1 ELSE counters.success,
     failed  |-> IF success THEN counters.failed ELSE counters.failed + 1]

\* StatsTracker.record raises KeyError: self.by_service[service] has no such key
RecordRaises(tracker, service) == service \notin DOMAIN tracker.by_service

\* StatsTracker.record(service, is_valid, success): the tracker afterwards.
\* "self.total += 1" comes first, the lookup of the service after it, so a
\* name that is no key of by_service leaves total incremented.
record(tracker, service, is_valid, success) ==
    IF RecordRaises(tracker, service) THEN [tracker EXCEPT !.total = @ + 1]
    ELSE [total |-> tracker.total + 1,
          by_service |-> [tracker.by_service EXCEPT
                              ![service] = Counted(@, is_valid, success)]]

\* answers to the POST of send_event and to the GET of a health check; 0
\* stands for a request that raised a RequestException
SendStatuses == {0, 200, 500}

\* EventClient.send_event: result["success"]
SendSuccess(status) == status = 200

\* the arguments parse_args can return
CountArgs == 0..MaxCount
InvalidRates == {0, 50, 101}
DelayArgs == {-1, 0}

\* main: the three argument checks pass
ArgsValid(a) ==
    /\ a.count > 0
    /\ 0 <= a.invalid_rate /\ a.invalid_rate <= 100
    /\ a.delay >= 0

\* generate_events: the number of events built for the service at position k
\* of DemoServices
EventsFor_Even(k, count) == count \div 3
EventsFor(k, count) ==
    (count \div 3) + (IF (count % 3) > (k - 1) /\ k < 3 THEN 1 ELSE 0)

\* the service of the event at position i of the list before the shuffle
ServiceAt(i, count) ==
    IF i <= EventsFor(1, count) THEN DemoServices[1]
    ELSE IF i <= EventsFor(1, count) + EventsFor(2, count) THEN DemoServices[2]
    ELSE DemoServices[3]

\* "random.randint(1, 100) > invalid_rate" can come out as is_valid
CanBeValid(invalid_rate, is_valid) ==
    IF is_valid THEN invalid_rate < 100 ELSE invalid_rate >= 1

\* the lists generate_events can hold before the shuffle
GeneratedLists(a) ==
    LET n == EventsFor(1, a.count) + EventsFor(2, a.count) + EventsFor(3, a.count)
    IN  {[i \in 1..n |-> [service |-> ServiceAt(i, a.count), is_valid |-> valid[i]]]
            : valid \in {v \in [1..n -> BOOLEAN] :
                            \A i \in 1..n : CanBeValid(a.invalid_rate, v[i])}}

\* random.shuffle(events): the list in any order
Shuffles(list) ==
    {[i \in DOMAIN list |-> list[perm[i]]] : perm \in Permutations(DOMAIN list)}

\* the lists generate_events can hold after the shuffle
ShuffledLists(a) == UNION {Shuffles(g) : g \in GeneratedLists(a)}

\* main: parse_args and the three checks; an invalid argument ends the run
ParseArgs(a) ==
    /\ pc = "demo_args"
    /\ args' = a
    /\ IF ArgsValid(a)
       THEN pc' = "demo_health" /\ UNCHANGED demo_exit
       ELSE pc' = "demo_exit" /\ demo_exit' = 1
    /\ UNCHANGED <<health, demo_events, sent, stats, last_record>>
    /\ UNCHANGED <<flowData, catalogVars, analyzerVars, schemaVars, extractVars, bulkVars>>

\* main: one iteration of "for name, url in services.items()"
CheckHealth(status) ==
    /\ pc = "demo_health"
    /\ Len(health) < Len(DemoServices)
    /\ health' = Append(health, status)
    /\ UNCHANGED <<pc, args, demo_events, sent, stats, last_record, demo_exit>>
    /\ UNCHANGED <<flowData, catalogVars, analyzerVars, schemaVars, extractVars, bulkVars>>

AllOk_Any(checks) == TRUE

\* all_ok after the checks made
AllOk(checks) == \A i \in DOMAIN checks : checks[i] = 200

\* main: "if not all_ok: sys.exit(1)"
ExitUnhealthy ==
    /\ pc = "demo_health"
    /\ Len(health) = Len(DemoServices)
    /\ ~AllOk(health)
    /\ pc' = "demo_exit"
    /\ demo_exit' = 1
    /\ UNCHANGED <<args, health, demo_events, sent, stats, last_record>>
    /\ UNCHANGED <<flowData, catalogVars, analyzerVars, schemaVars, extractVars, bulkVars>>

\* generate_events up to random.shuffle(events): client and stats created,
\* the events of the three services built and shuffled
BuildEvents ==
    /\ pc = "demo_health"
    /\ Len(health) = Len(DemoServices)
    /\ AllOk(health)
    /\ \E list \in ShuffledLists(args) : demo_events' = list
    /\ stats' = NewStats
    /\ pc' = "demo_send"
    /\ UNCHANGED <<args, health, sent, last_record, demo_exit>>
    /\ UNCHANGED <<flowData, catalogVars, analyzerVars, schemaVars, extractVars, bulkVars>>

\* generate_events: one iteration of "for idx, (service, is_valid,
\* event_data) in enumerate(events, 1)": send_event, then stats.record
SendEvent(status) ==
    /\ pc = "demo_send"
    /\ Len(sent) < Len(demo_events)
    /\ sent' = Append(sent, [event |-> Len(sent) + 1,
                              service |-> demo_events[Len(sent) + 1].service,
                              status |-> status])
    /\ stats' = record(stats, demo_events[Len(sent) + 1].service,
                       demo_events[Len(sent) + 1].is_valid, SendSuccess(status))
    /\ last_record' = [service |-> demo_events[Len(sent) + 1].service, raised |-> FALSE]
    /\ UNCHANGED <<pc, args, health, demo_events, demo_exit>>
    /\ UNCHANGED <<flowData, catalogVars, analyzerVars, schemaVars, extractVars, bulkVars>>

\* generate_events returns after the summary; main ends
FinishDemo ==
    /\ pc = "demo_send"
    /\ Len(sent) = Len(demo_events)
    /\ pc' = "demo_exit"
    /\ demo_exit' = 0
    /\ UNCHANGED <<args, health, demo_events, sent, stats, last_record>>
    /\ UNCHANGED <<flowData, catalogVars, analyzerVars, schemaVars, extractVars, bulkVars>>

\* one StatsTracker.record call on a tracker of its own, with any service
\* name; after a KeyError the tracker is as the statements before the lookup
\* left it
Record(service, is_valid, success) ==
    /\ pc = "tracking"
    /\ stats.total < MaxRecords
    /\ stats' = record(stats, service, is_valid, success)
    /\ last_record' = [service |-> service, raised |-> RecordRaises(stats, service)]
    /\ UNCHANGED <<pc, args, health, demo_events, sent, demo_exit>>
    /\ UNCHANGED <<flowData, catalogVars, analyzerVars, schemaVars, extractVars, bulkVars>>

NoArgs == [count |-> 0, invalid_rate |-> 0, delay |-> 0]
NoRecord == [service |-> "", raised |-> FALSE]

InitDemoIdle ==
    /\ args = NoArgs
    /\ health = <<>>
    /\ demo_events = <<>>
    /\ sent = <<>>
    /\ stats = NewStats
    /\ last_record = NoRecord
    /\ demo_exit = -1

InitScriptsIdle ==
    InitAnalyzerIdle /\ InitSchemasIdle /\ InitExtractIdle /\ InitBulkIdle /\ InitDemoIdle

InitFlowData ==
    /\ repositories = <<>>
    /\ event_flows = <<>>
    /\ outputs = <<>>
    /\ inventory = NoInventory
    /\ printed = <<>>
    /\ report = <<>>

\* a ServiceAnalyzer after __init__, before analyze
InitAnalyzer ==
    /\ pc = "listing"
    /\ InitFlowData
    /\ java_files = <<>>
    /\ published_events = <<>>
    /\ consumed_events = <<>>
    /\ event_details = <<>>
    /\ warnings = <<>>
    /\ service_info = NoServiceInfo
    /\ InitSchemasIdle
    /\ InitExtractIdle
    /\ InitBulkIdle
    /\ InitDemoIdle

\* the extractor module after import, before extract_schemas
InitSchemas ==
    /\ pc = "globbing"
    /\ InitFlowData
    /\ InitAnalyzerIdle
    /\ payload_files = <<>>
    /\ type_definitions_cache = EmptyCache
    /\ types_defined_in_schema = {}
    /\ schemas_generated = 0
    /\ schemas_failed = 0
    /\ schema_files = <<>>
    /\ InitExtractIdle
    /\ InitBulkIdle
    /\ InitDemoIdle

\* an extract script started: no service of REPOS visited yet
InitExtract ==
    /\ pc = "walking"
    /\ InitFlowData
    /\ InitAnalyzerIdle
    /\ InitSchemasIdle
    /\ service_dirs = <<>>
    /\ inventory_flows = <<>>
    /\ InitBulkIdle
    /\ InitDemoIdle

\* one of the two registration scripts started
InitBulk ==
    /\ pc \in {"rs_check", "ec_check"}
    /\ InitFlowData
    /\ InitAnalyzerIdle
    /\ InitSchemasIdle
    /\ InitExtractIdle
    /\ InitBulkIdle
    /\ InitDemoIdle

\* generate_demo_events started (pc = "demo_args"), or a StatsTracker just
\* constructed (pc = "tracking")
InitDemo ==
    /\ InitFlowData
    /\ InitAnalyzerIdle
    /\ InitSchemasIdle
    /\ InitExtractIdle
    /\ InitBulkIdle
    /\ InitDemoIdle

InitFlows ==
    /\ repositories = <<>>
    /\ event_flows = <<>>
    /\ outputs = <<>>
    /\ pc = "collect"
    /\ inventory = NoInventory
    /\ printed = <<>>
    /\ report = <<>>

InitCatalogIdle ==
    /\ all_events = <<>>
    /\ cat_flows = <<>>
    /\ cat_idx = 0
    /\ pages = <<>>
    /\ registered_count = 0
    /\ created_count = 0
    /\ registry_log = <<>>

Init == InitFlows /\ InitCatalogIdle /\ InitScriptsIdle

\* the catalog generator after loading the inventory file, before the event loop
InitCatalog ==
    /\ all_events \in UNION {[1..n -> EventRecords] : n \in 0..MaxEvents}
    /\ cat_flows \in FlowMappings
    /\ cat_idx = 0
    /\ pages = <<>>
    /\ registered_count = 0
    /\ created_count = 0
    /\ registry_log = <<>>

InitFlowsIdle ==
    /\ repositories = <<>>
    /\ event_flows = <<>>
    /\ outputs = <<>>
    /\ pc = "idle"
    /\ inventory = NoInventory
    /\ printed = <<>>
    /\ report = <<>>

InitCatalogRun == InitFlowsIdle /\ InitCatalog /\ InitScriptsIdle

NextCatalog == ProcessEvent

SpecCatalog == InitCatalogRun /\ [][NextCatalog]_vars

\* the generator started on an inventory file without the "event_flows" key:
\* complete_data.get('event_flows', {}) is the empty mapping
InitRegistration ==
    /\ InitFlowsIdle
    /\ InitScriptsIdle
    /\ all_events \in UNION {[1..n -> EventRecords] : n \in 0..MaxEvents}
    /\ cat_flows = <<>>
    /\ cat_idx = 0
    /\ pages = <<>>
    /\ registered_count = 0
    /\ created_count = 0
    /\ registry_log = <<>>

SpecRegistration == InitRegistration /\ [][NextCatalog]_vars

Next ==
    \/ \E n \in RepoNames, found \in BOOLEAN : AddRepository(n, found)
    \/ \E s \in ServiceRecords : AddService(s)
    \/ MapFlows
    \/ Main

Spec == Init /\ [][Next]_vars

(***************************************************************************)
(* map_flows on two services of one event, under repository and service    *)
(* names that may hold the "/" of the service id                           *)
(***************************************************************************)
PathLikeRepoNames    == {"a", "a/b", "r1"}
PathLikeServiceNames == {"c", "b/c", "s1"}

\* one publisher and one consumer of AEvent, each in a repository of its own
InitServiceIds ==
    /\ \E rp, rc \in PathLikeRepoNames : \E sp, sc \in PathLikeServiceNames :
          repositories =
              << [name |-> rp, path |-> RepoPath(rp),
                  services |-> <<[name |-> sp, publishes |-> <<"AEvent">>,
                                  consumes |-> <<>>]>>],
                 [name |-> rc, path |-> RepoPath(rc),
                  services |-> <<[name |-> sc, publishes |-> <<>>,
                                  consumes |-> <<"AEvent">>]>>] >>
    /\ event_flows = <<>>
    /\ outputs = <<>>
    /\ pc = "collect"
    /\ inventory = NoInventory
    /\ printed = <<>>
    /\ report = <<>>
    /\ InitCatalogIdle
    /\ InitScriptsIdle

NextServiceIds == MapFlows

SpecServiceIds == InitServiceIds /\ [][NextServiceIds]_vars

(***************************************************************************)
(* The scan batch: one ServiceAnalyzer.analyze run, or one extract_schemas *)
(* run                                                                     *)
(***************************************************************************)
InitBatch == (InitAnalyzer \/ InitSchemas) /\ InitCatalogIdle

NextBatch ==
    \/ \E f \in JavaFiles : ListJavaFile(f)
    \/ Analyze
    \/ \E f \in PayloadFileSet : FindPayloadFile(f)
    \/ ExtractSchemas

SpecBatch == InitBatch /\ [][NextBatch]_vars

(***************************************************************************)
(* The extract scripts: the walk over the services, then main of one of    *)
(* the two scripts                                                         *)
(***************************************************************************)
InitExtractRun == InitExtract /\ InitCatalogIdle

NextExtract ==
    \/ \E n \in ExtractServiceNames, exists \in BOOLEAN : FindService(n, exists)
    \/ \E e \in Range(EventNames) : FindEventFile(e)
    \/ \E e \in Range(EventNames) : FindListenerFile(e)
    \/ MainWithConsumers
    \/ MainAllRepos

SpecExtract == InitExtractRun /\ [][NextExtract]_vars

(***************************************************************************)
(* The registration scripts: one run of register_schemas.main or of        *)
(* register_eventcatalog_schemas.main                                      *)
(***************************************************************************)
AvscFileLists == UNION {[1..n -> AvscFiles] : n \in 0..MaxSchemaFiles}

InitBulkRun == InitBulk /\ InitCatalogIdle

NextBulk ==
    \/ \E status \in CheckStatuses : CheckRegistry(status)
    \/ \E files \in AvscFileLists : FindSchemaFiles(files)
    \/ \E answer \in PostAnswers : RegisterSchemaFile(answer)
    \/ \E answer \in SubjectsAnswers : ExitRegistration(answer)
    \/ \E status \in CheckStatuses : CheckRegistryCatalog(status)
    \/ \E files \in AvscFileLists : FindSchemaFilesCatalog(files)
    \/ \E answer \in PostAnswers : RegisterSchemaFileCatalog(answer)
    \/ \E answer \in SubjectsAnswers : ExitRegistrationCatalog(answer)

SpecBulk == InitBulkRun /\ [][NextBulk]_vars

(***************************************************************************)
(* generate_demo_events: one run of main                                   *)
(***************************************************************************)
DemoArgs == [count : CountArgs, invalid_rate : InvalidRates, delay : DelayArgs]

InitDemoRun == pc = "demo_args" /\ InitDemo /\ InitCatalogIdle

NextDemo ==
    \/ \E a \in DemoArgs : ParseArgs(a)
    \/ \E status \in SendStatuses : CheckHealth(status)
    \/ ExitUnhealthy
    \/ BuildEvents
    \/ \E status \in SendStatuses : SendEvent(status)
    \/ FinishDemo

SpecDemo == InitDemoRun /\ [][NextDemo]_vars

(***************************************************************************)
(* StatsTracker: record calls on one tracker                               *)
(***************************************************************************)
InitStatsRun == pc = "tracking" /\ InitDemo /\ InitCatalogIdle

NextStats ==
    \E service \in Range(DemoServices) \cup {OtherService}, is_valid \in BOOLEAN,
       success \in BOOLEAN : Record(service, is_valid, success)

SpecStats == InitStatsRun /\ [][NextStats]_vars

(***************************************************************************)
(* Helpers of the properties                                               *)
(***************************************************************************)
\* the service facts of an input in scan order: repository name and service record
RECURSIVE Facts(_)
Facts(repos) ==
    IF repos = <<>> THEN <<>>
    ELSE [i \in DOMAIN Head(repos).services |->
             [repo |-> Head(repos).name, service |-> Head(repos).services[i]]]
         \o Facts(Tail(repos))

FactId(f) == f.repo \o "/" \o f.service.name

\* an input holding the given facts in the given order, one repository per fact
Regroup(facts) ==
    [i \in DOMAIN facts |-> [name |-> facts[i].repo, services |-> <<facts[i].service>>]]

RemoveAt(seq, i) == SubSeq(seq, 1, i - 1) \o SubSeq(seq, i + 1, Len(seq))

\* every reordering of a list
RECURSIVE Reorderings(_)
Reorderings(seq) ==
    IF seq = <<>> THEN {<<>>}
    ELSE UNION {{<<seq[i]>> \o rest : rest \in Reorderings(RemoveAt(seq, i))}
                : i \in DOMAIN seq}

\* the input without the service at position s of repository r
RemoveService(repos, r, s) ==
    [repos EXCEPT ![r].services = RemoveAt(@, s)]

\* positions <<r, s>> of the services of an input
Positions(repos) ==
    UNION {{<<r, s>> : s \in DOMAIN repos[r].services} : r \in DOMAIN repos}

FactAt(repos, pos) == [repo |-> repos[pos[1]].name, service |-> repos[pos[1]].services[pos[2]]]

Before(p, q) == p[1] < q[1] \/ (p[1] = q[1] /\ p[2] < q[2])

\* the publishers and consumers lists of every event, is_orphaned left out
Lists(flows) ==
    [i \in DOMAIN flows |->
        [event |-> flows[i].event, publishers |-> flows[i].publishers,
         consumers |-> flows[i].consumers]]

\* what does not depend on order: names, orphan flags, publisher and consumer sets
SetView(flows) ==
    {[event |-> flows[i].event, is_orphaned |-> flows[i].is_orphaned,
      publishers |-> Range(flows[i].publishers),
      consumers |-> Range(flows[i].consumers)] : i \in DOMAIN flows}

\* every name in some publishes or consumes list of the input
PublishedNames(repos) == UNION {Range(f.service.publishes) : f \in Range(Facts(repos))}
ConsumedNames(repos)  == UNION {Range(f.service.consumes) : f \in Range(Facts(repos))}

\* the distinct elements of a list, each at its first occurrence
RECURSIVE FirstSeen(_)
FirstSeen(seq) ==
    IF seq = <<>> THEN <<>>
    ELSE LET init == FirstSeen(SubSeq(seq, 1, Len(seq) - 1))
             last == seq[Len(seq)]
         IN  IF last \in Range(init) THEN init ELSE Append(init, last)

\* ids of the services that list event e under publishes (consumes), in scan order
PublisherIds(repos, e) ==
    LET fs == SelectSeq(Facts(repos), LAMBDA f : e \in Range(f.service.publishes))
    IN  [i \in DOMAIN fs |-> FactId(fs[i])]
ConsumerIds(repos, e) ==
    LET fs == SelectSeq(Facts(repos), LAMBDA f : e \in Range(f.service.consumes))
    IN  [i \in DOMAIN fs |-> FactId(fs[i])]

\* indices of the orphaned records of a list of flows
OrphanIndices(flows) == {i \in DOMAIN flows : flows[i].is_orphaned}

\* listing is exactly the orphaned records of flows, in the order of flows
IsOrphanSubsequence(listing, flows) ==
    /\ Len(listing) = Cardinality(OrphanIndices(flows))
    /\ \A k \in DOMAIN listing :
          \E i \in OrphanIndices(flows) :
              /\ Cardinality({j \in OrphanIndices(flows) : j <= i}) = k
              /\ listing[k] = flows[i]

(***************************************************************************)
(* Properties of EventFlowMapper.map_flows                                 *)
(***************************************************************************)
\* C1 (idempotence of the merge): when the input holds the same service fact
\* (same repository name, same service record) at two positions, the first
\* map_flows call yields for every event the same publishers and consumers
\* lists as it yields on the input without the later of the two.
C1_Idempotence ==
    Len(outputs) >= 1 =>
        \A p, q \in Positions(repositories) :
            (Before(p, q) /\ FactAt(repositories, p) = FactAt(repositories, q)) =>
                Lists(outputs[1]) =
                    Lists(map_flows(<<>>, RemoveService(repositories, q[1], q[2])))

\* C2 (union completeness): the event names of every map_flows output are
\* exactly the names found in some publishes or consumes list of the input.
C2_UnionCompleteness ==
    outputs # <<>> =>
        LET names == PublishedNames(repositories) \cup ConsumedNames(repositories) IN
        \A k \in DOMAIN outputs :
            {outputs[k][i].event : i \in DOMAIN outputs[k]} = names

\* C2 witness: map_flows has returned for an input in which one name is only
\* published and another name is only consumed.
C2_Witness ==
    /\ Len(outputs) >= 1
    /\ PublishedNames(repositories) \ ConsumedNames(repositories) # {}
    /\ ConsumedNames(repositories) \ PublishedNames(repositories) # {}

\* C3 (orphan correctness): in every record of every map_flows output,
\* is_orphaned holds exactly when the record's publishers list or consumers
\* list is empty, which is exactly when no service of the input publishes the
\* event or no service of the input consumes it.
C3_OrphanCorrectness ==
    outputs # <<>> =>
        LET published == PublishedNames(repositories)
            consumed  == ConsumedNames(repositories)
        IN  \A k \in DOMAIN outputs : \A i \in DOMAIN outputs[k] :
                LET rec == outputs[k][i] IN
                /\ rec.is_orphaned <=> (rec.publishers = <<>> \/ rec.consumers = <<>>)
                /\ rec.is_orphaned <=> (rec.event \notin published \/ rec.event \notin consumed)

\* C3 witness: one output holds a record with a publisher and a consumer that
\* is not orphaned, next to an orphaned record.
C3_Witness ==
    \E k \in DOMAIN outputs : \E i, j \in DOMAIN outputs[k] :
        /\ outputs[k][i].publishers # <<>>
        /\ outputs[k][i].consumers # <<>>
        /\ ~outputs[k][i].is_orphaned
        /\ outputs[k][j].is_orphaned

\* C4 (order-independence of membership): for every reordering of the service
\* facts of the input, map_flows yields the same event names, the same orphan
\* flags and, per event, the same set of publishers and the same set of
\* consumers as every output obtained for the input itself.
C4_OrderIndependence ==
    outputs # <<>> =>
        \A facts \in Reorderings(Facts(repositories)) :
            LET view == SetView(map_flows(<<>>, Regroup(facts))) IN
            \A k \in DOMAIN outputs : view = SetView(outputs[k])

\* C4 witness: an output in which one event has two different publishers, so
\* that reordering the facts changes the list.
C4_Witness ==
    \E k \in DOMAIN outputs : \E i \in DOMAIN outputs[k] :
        /\ Len(outputs[k][i].publishers) >= 2
        /\ outputs[k][i].publishers[1] # outputs[k][i].publishers[2]

\* C5 (determinism): any two map_flows calls on the same input return the
\* same list of records.
C5_Determinism ==
    \A i, j \in DOMAIN outputs : outputs[i] = outputs[j]

\* C6 (sorted presentation): the records of every map_flows output are in
\* ascending order of event name.
C6_SortedByName ==
    \A k \in DOMAIN outputs : \A i, j \in DOMAIN outputs[k] :
        i < j => ~StrLess(outputs[k][j].event, outputs[k][i].event)

\* C7 (first-seen order): in the output of the first map_flows call, the
\* publishers list of every event is the list of the distinct ids of the
\* services publishing it, in the order in which they first appear in the
\* input; likewise the consumers list.
C7_FirstSeenOrder ==
    Len(outputs) >= 1 =>
        \A i \in DOMAIN outputs[1] :
            LET rec == outputs[1][i] IN
            /\ rec.publishers = FirstSeen(PublisherIds(repositories, rec.event))
            /\ rec.consumers = FirstSeen(ConsumerIds(repositories, rec.event))

(***************************************************************************)
(* Properties of analyze_biopro_comprehensive.main                         *)
(***************************************************************************)
\* C9 (summary counts): in the inventory built by main, total_events is the
\* number of records map_flows returned and orphaned_events is the number of
\* those records whose is_orphaned is true, between 0 and total_events.
C9_SummaryCounts ==
    inventory.status = "built" =>
        /\ inventory.summary.total_events = Len(outputs[1])
        /\ inventory.summary.orphaned_events = Cardinality(OrphanIndices(outputs[1]))
        /\ 0 <= inventory.summary.orphaned_events
        /\ inventory.summary.orphaned_events <= inventory.summary.total_events

\* C9 witness: main has built the inventory over flows of which some, not
\* all, are orphaned.
C9_Witness ==
    /\ inventory.status = "built"
    /\ inventory.summary.orphaned_events >= 1
    /\ inventory.summary.total_events > inventory.summary.orphaned_events

\* C10 (orphaned-event listing): the orphaned events printed by main, and
\* those of the report section, are exactly the records of the map_flows
\* output whose is_orphaned is true, in the order of that output, which is
\* ascending by name.
C10_OrphanListing ==
    inventory.status = "built" =>
        /\ IsOrphanSubsequence(printed, outputs[1])
        /\ IsOrphanSubsequence(report, outputs[1])
        /\ \A i, j \in DOMAIN printed :
              i < j => StrLess(printed[i].event, printed[j].event)
        /\ \A i, j \in DOMAIN report :
              i < j => StrLess(report[i].event, report[j].event)

\* C10 witness: main has run on flows of which one is orphaned and listed
\* and another is connected and not listed.
C10_Witness ==
    /\ inventory.status = "built"
    /\ Len(printed) = 1
    /\ Len(report) = 1
    /\ Len(outputs[1]) = 2

\* C11 (empty input): when the input holds no service (no repositories, or
\* only repositories with an empty service list), every map_flows call
\* returns the empty list and the summary built by main has total_events = 0
\* and orphaned_events = 0.
C11_EmptyInput ==
    TotalServices(repositories) = 0 =>
        /\ \A k \in DOMAIN outputs : outputs[k] = <<>>
        /\ event_flows = <<>>
        /\ inventory.status = "built" =>
              /\ inventory.event_flows = <<>>
              /\ inventory.summary.total_events = 0
              /\ inventory.summary.orphaned_events = 0

\* C11 witness: main has built the inventory over repositories none of which
\* has a service, one of them with an existing path and one without.
C11_Witness ==
    /\ inventory.status = "built"
    /\ Len(repositories) >= 2
    /\ TotalServices(repositories) = 0
    /\ \E i, j \in DOMAIN repositories :
          "path" \in DOMAIN repositories[i] /\ "path" \notin DOMAIN repositories[j]

\* C12 (totality): no map_flows call, direct or from main, raises; once a call
\* was made on the well-formed input it has returned a list.
C12_Totality ==
    /\ pc # "raised"
    /\ pc \in {"api", "main_done"} => outputs # <<>>

\* C12 witness: map_flows has returned on an input that holds a repository
\* returned without "path" and with no service, next to a service whose
\* publishes and consumes are both empty.
C12_Witness ==
    /\ pc = "api"
    /\ outputs # <<>>
    /\ \E i \in DOMAIN repositories : "path" \notin DOMAIN repositories[i]
    /\ \E f \in Range(Facts(repositories)) :
          f.service.publishes = <<>> /\ f.service.consumes = <<>>

\* C13 (unique service ids): in every record of the first map_flows output
\* the publishers and consumers hold as many different service ids as there
\* are different (repository name, service name) pairs among the services
\* that publish or consume the event: distinct services are never merged.
C13_UniqueServiceIds ==
    Len(outputs) >= 1 =>
        \A i \in DOMAIN outputs[1] :
            LET rec   == outputs[1][i]
                pairs == {<<f.repo, f.service.name>> :
                            f \in {g \in Range(Facts(repositories)) :
                                      rec.event \in Range(g.service.publishes)
                                                      \cup Range(g.service.consumes)}}
            IN  Cardinality(Range(rec.publishers) \cup Range(rec.consumers))
                    = Cardinality(pairs)

\* C19 (one record per event): every list map_flows returned, and the
\* mapper's event_flows attribute, holds each event name in one record only.
C19_OneRecordPerEvent ==
    /\ \A k \in DOMAIN outputs : \A i, j \in DOMAIN outputs[k] :
          i # j => outputs[k][i].event # outputs[k][j].event
    /\ \A i, j \in DOMAIN event_flows :
          i # j => event_flows[i].event # event_flows[j].event

(***************************************************************************)
(* Properties of ServiceAnalyzer and of extract_schemas                    *)
(***************************************************************************)
NoDuplicates(seq) == \A i, j \in DOMAIN seq : i # j => seq[i] # seq[j]

\* the files of a list that analyze can read
ReadableFiles(files) == {files[i] : i \in {k \in DOMAIN files : files[k].readable}}

\* the event names the readable files of a list give as published (consumed)
PublishedBy(files) ==
    {f.class_name : f \in {g \in ReadableFiles(files) :
                              /\ g.role = "event"
                              /\ EndsWithEvent(g.class_name)
                              /\ g.direction = "outbound"}}
    \cup UNION {Range(f.matches) : f \in {g \in ReadableFiles(files) : g.role = "producer"}}
ConsumedBy(files) ==
    {f.class_name : f \in {g \in ReadableFiles(files) :
                              /\ g.role = "event"
                              /\ EndsWithEvent(g.class_name)
                              /\ g.direction = "inbound"}}
    \cup UNION {Range(f.matches) : f \in {g \in ReadableFiles(files) : g.role = "listener"}}

\* the payload file on its own cannot be converted: parse_java_record raises,
\* or generate_avro_schema raises on its record
PayloadFails(f) ==
    \/ f.parse = "raises"
    \/ f.parse = "record" /\ ~generate_avro_schema(f, NewRun.caches).ok

\* the payload file on its own yields a schema file
PayloadConverts(f) == f.parse = "record" /\ generate_avro_schema(f, NewRun.caches).ok

\* C14 (set semantics of a service fact): the publishes and consumes lists of
\* the record analyze returns hold no event name twice, and hold exactly the
\* names collected in published_events and consumed_events.
C14_NoDuplicateNames ==
    pc = "analyzed" =>
        /\ NoDuplicates(service_info.publishes)
        /\ NoDuplicates(service_info.consumes)
        /\ Range(service_info.publishes) = Range(published_events)
        /\ Range(service_info.consumes) = Range(consumed_events)

\* C14 witness: analyze has returned after collecting one event name twice in
\* published_events, from two files, next to a consumed event.
C14_Witness ==
    /\ pc = "analyzed"
    /\ service_info.status = "returned"
    /\ ~NoDuplicates(published_events)
    /\ consumed_events # <<>>

\* C17 (failure isolation): analyze returns the service record whatever files
\* fail; it warns about exactly the files that cannot be read, and the record
\* holds what every readable file contributes, those after a failed file
\* included. extract_schemas counts as failed exactly the payload files that
\* cannot be converted and writes a schema for every payload file that can,
\* those after a failed file included.
C17_FailureIsolation ==
    /\ pc = "analyzed" =>
          /\ service_info.status = "returned"
          /\ Range(warnings) = {i \in DOMAIN java_files : ~java_files[i].readable}
          /\ NoDuplicates(warnings)
          /\ Range(service_info.publishes) = PublishedBy(java_files)
          /\ Range(service_info.consumes) = ConsumedBy(java_files)
    /\ pc = "extracted" =>
          /\ schemas_failed =
                 Cardinality({i \in DOMAIN payload_files : PayloadFails(payload_files[i])})
          /\ schemas_generated = Len(schema_files)
          /\ {schema_files[k].position : k \in DOMAIN schema_files} =
                 {i \in DOMAIN payload_files : PayloadConverts(payload_files[i])}
          /\ \A j, k \in DOMAIN schema_files :
                 j < k => schema_files[j].position < schema_files[k].position

\* C17 witness: analyze has returned after a first file that could not be
\* read, with an event published and an event consumed by later files.
C17_Witness ==
    /\ pc = "analyzed"
    /\ Len(java_files) >= 3
    /\ ~java_files[1].readable
    /\ warnings = <<1>>
    /\ service_info.publishes # <<>>
    /\ service_info.consumes # <<>>

\* C18 (the type cache lives for one conversion): every schema extract_schemas
\* writes is the schema written when the payload file is the only one of the
\* run, and the two module caches are left as the last generate_avro_schema
\* call leaves them when it starts from empty caches.
C18_CachePerConversion ==
    pc = "extracted" =>
        /\ \A k \in DOMAIN schema_files :
              schema_files[k].schema =
                  ExtractLoop(NewRun, <<payload_files[schema_files[k].position]>>, 1)
                      .files[1].schema
        /\ LET calls == {i \in DOMAIN payload_files : payload_files[i].parse = "record"}
           IN  IF calls = {}
               THEN /\ type_definitions_cache = EmptyCache
                    /\ types_defined_in_schema = {}
               ELSE [type_definitions_cache |-> type_definitions_cache,
                     types_defined_in_schema |-> types_defined_in_schema] =
                        generate_avro_schema(
                            payload_files[CHOOSE i \in calls : \A j \in calls : j <= i],
                            NewRun.caches).caches

\* C18 witness: two payload records were converted in one run, the first
\* with a Status and a Unit component, the second with a Unit component only.
C18_Witness ==
    /\ pc = "extracted"
    /\ Len(schema_files) = 2
    /\ Len(payload_files[1].fields) = 2
    /\ payload_files[1].fields[1].java_type = "Status"
    /\ payload_files[1].fields[2].java_type = "Unit"
    /\ Len(payload_files[2].fields) = 1
    /\ payload_files[2].fields[1].java_type = "Unit"

(***************************************************************************)
(* Properties of create_eventcatalog_mdx                                   *)
(***************************************************************************)
(***************************************************************************)
(* Properties of the extract scripts                                       *)
(***************************************************************************)
\* no service name twice in the publishers or in the consumers of an entry
DistinctServices(flows) ==
    \A i \in DOMAIN flows :
        NoDuplicates(flows[i].publishers) /\ NoDuplicates(flows[i].consumers)

\* C15: after extract_with_consumers.main has processed the services, no
\* service name occurs more than once in the publishers list or in the
\* consumers list of any event_flows entry.
C15_DistinctWithConsumers ==
    pc = "with_consumers" => DistinctServices(inventory_flows)

\* the same service processed twice, the first time with two event files
\* declaring the same event name, and listed once as its publisher
C15_Witness ==
    /\ pc = "with_consumers"
    /\ \E i, j \in DOMAIN service_dirs :
           /\ i < j
           /\ service_dirs[i].name = service_dirs[j].name
           /\ \E a, b \in DOMAIN service_dirs[i].event_files :
                  /\ a # b
                  /\ service_dirs[i].event_files[a] = service_dirs[i].event_files[b]
                  /\ service_dirs[i].event_files[a] \in Range(service_dirs[j].event_files)
                  /\ \E k \in DOMAIN inventory_flows :
                         /\ inventory_flows[k].event = service_dirs[i].event_files[a]
                         /\ inventory_flows[k].publishers = <<service_dirs[i].name>>

\* C16: after extract_all_biopro_repos.main has processed the services, no
\* service name occurs more than once in the publishers list or in the
\* consumers list of any event_flows entry.
C16_DistinctAllRepos ==
    pc = "all_repos" => DistinctServices(inventory_flows)

\* C20: the key order of the event_flows mapping written by
\* extract_with_consumers.main is the same in every run over the same
\* services, however list() enumerates each service's consumed-event set.
C20_KeyOrderDeterministic ==
    pc = "with_consumers" =>
        \A orders \in ConsumedOrders(service_dirs) :
            KeyOrder(WithConsumersLoop(<<>>, service_dirs, orders))
                = KeyOrder(inventory_flows)

(***************************************************************************)
(* Properties of type resolution and of type deduplication                 *)
(***************************************************************************)
\* the Java types the parameters of the type files of a set of types name
ParamTypes(types) ==
    UNION {{TypeFile(T).params[k].type : k \in DOMAIN TypeFile(T).params} : T \in types}

\* the types reached from a set of types in at most n steps along parameters
RECURSIVE ReachedFrom(_, _)
ReachedFrom(types, n) ==
    IF n = 0 THEN types ELSE ReachedFrom(types \cup ParamTypes(types), n - 1)

\* the record types that refer to themselves, directly or through other records
CyclicTypes ==
    {T \in JavaTypes : T \in ReachedFrom(ParamTypes({T}), Cardinality(JavaTypes))}

\* the positions of the payload files a schema file was written for
ConvertedPositions == {schema_files[k].position : k \in DOMAIN schema_files}

\* C21: resolve_java_type_to_avro terminates on a record type that refers to
\* itself directly or through other record types (it returns a type instead
\* of recursing without end), so a payload record with a field of such a type
\* is converted.
C21_CyclicTypesResolve ==
    pc = "extracted" =>
        \A i \in DOMAIN payload_files :
            \A k \in DOMAIN payload_files[i].fields :
                payload_files[i].fields[k].java_type \in CyclicTypes =>
                    /\ resolve_java_type_to_avro(payload_files[i].fields[k].java_type,
                                                 EmptyCache, {}).ok
                    /\ i \in ConvertedPositions

\* the named types of a serialized type in depth-first field order, each with
\* whether the occurrence is a full definition or a reference by name
RECURSIVE Occurrences(_)
RECURSIVE OccurrencesOfAll(_)
Occurrences(t) ==
    CASE t.kind \in {"record", "enum"} ->
             <<[name |-> t.name, defined |-> TRUE]>> \o OccurrencesOfAll(t.of)
      [] t.kind = "ref" -> <<[name |-> t.name, defined |-> FALSE]>>
      [] t.kind \in {"array", "union", "field"} -> OccurrencesOfAll(t.of)
      [] OTHER -> <<>>
OccurrencesOfAll(ts) ==
    IF ts = <<>> THEN <<>> ELSE Occurrences(Head(ts)) \o OccurrencesOfAll(Tail(ts))

\* the payload schema inside the event schema of a written file
PayloadSchema(schema_file) == schema_file.schema.of[1].of[1]

\* the first occurrence of every name is its definition, every later one a
\* reference
DefinedOnceAndFirst(occ) ==
    \A i \in DOMAIN occ :
        occ[i].defined <=> (\A j \in 1..(i - 1) : occ[j].name # occ[i].name)

\* C22: in the payload schema generate_avro_schema returns, every named record
\* or enum type is fully defined at most once, the definition is its first
\* occurrence in depth-first field order, and every other occurrence, at any
\* depth and inside arrays and null-unions, is a reference by its full name.
C22_TypesDefinedOnce ==
    \A k \in DOMAIN schema_files :
        DefinedOnceAndFirst(OccurrencesOfAll(PayloadSchema(schema_files[k]).of))

\* a written schema where a type defined in the first field is referred to
\* by name inside a record, an array or a null-union of the second field
C22_Witness ==
    /\ pc = "extracted"
    /\ \E k \in DOMAIN schema_files :
           /\ Len(PayloadSchema(schema_files[k]).of) = 2
           /\ PayloadSchema(schema_files[k]).of[2].of[1].kind \in {"record", "array", "union"}
           /\ \E i \in DOMAIN Occurrences(PayloadSchema(schema_files[k]).of[2]) :
                  ~Occurrences(PayloadSchema(schema_files[k]).of[2])[i].defined

(***************************************************************************)
(* Properties of the registration step of the catalog generator            *)
(***************************************************************************)
\* the registry request failed or met a conflict
FailedOrConflicting(entry) == entry.post.status = 0 \/ entry.post.status >= 400

\* what the claim says register_schema returns for a failed or conflicting
\* request: the existing id when the lookup after a 409 succeeds, else -1
ReturnedOnFailure(entry) ==
    IF entry.post.status = 409 /\ entry.get.status = 200 /\ entry.get.has_id
    THEN entry.get.id ELSE -1

\* the processed events that no later processed event shares its page with
LastWritten ==
    {i \in 1..cat_idx : \A j \in (i + 1)..cat_idx : all_events[j].name # all_events[i].name}

\* the exchanges after which register_schema returned
Returned == {i \in DOMAIN registry_log : ~registry_log[i].raised}

\* C23: a failed or conflicting registration does not stop the event loop of
\* create_complete_eventcatalog.main: register_schema never raises for a
\* failed or conflicting request, it returns the existing id on a 409 whose
\* lookup succeeds and -1 on any other failure; every processed event has its
\* page written, with schema id 999 when the returned id is not positive,
\* created_count is the number of events processed and registered_count the
\* number of them whose registration returned a positive id.
C23_RegistrationFailureTolerated ==
    /\ \A i \in DOMAIN registry_log :
           FailedOrConflicting(registry_log[i]) =>
               /\ ~registry_log[i].raised
               /\ registry_log[i].returned = ReturnedOnFailure(registry_log[i])
    /\ Cardinality(Returned) = cat_idx
    /\ created_count = cat_idx
    /\ registered_count = Cardinality({i \in Returned : registry_log[i].returned > 0})
    /\ \A i \in 1..cat_idx : EventId(all_events[i].name) \in DOMAIN pages
    /\ \A i \in LastWritten :
           pages[EventId(all_events[i].name)].schema_id =
               IF registry_log[i].returned > 0 THEN registry_log[i].returned ELSE 999

(***************************************************************************)
(* Properties of the registration scripts                                  *)
(***************************************************************************)
\* every file handled so far was attempted exactly once, in order
AttemptedInOrder ==
    /\ Len(attempts) = reg_idx
    /\ \A i \in DOMAIN attempts : attempts[i].position = i

\* the run reached the end of the registration loop of register_schemas.main
LoopFinished == pc = "rs_exit" /\ schema_file_list # <<>>

\* C24 (bulk registration accounting), for the runs of register_schemas.main
\* that pass the connectivity check and find schema files: every discovered
\* schema file is attempted exactly once, in order, whatever the outcome of
\* earlier files; at the end registered + failed equals the number of schema
\* files, and the exit status is 0 if and only if failed is 0.
C24_BulkAccounting ==
    /\ pc \in {"rs_check", "rs_find", "rs_loop", "rs_exit"} =>
           /\ AttemptedInOrder
           /\ registered + failed = reg_idx
    /\ LoopFinished =>
           /\ reg_idx = Len(schema_file_list)
           /\ registered + failed = Len(schema_file_list)
           /\ exit_status = 0 <=> failed = 0

\* the payload-named files among the first n files found
PayloadNamed(n) == {i \in 1..n : schema_file_list[i].payload_named}

\* C25: register_eventcatalog_schemas never posts a schema file whose name
\* contains "Payload" and counts it as skipped, neither as registered nor as
\* failed; registered + skipped + failed equals the number of files handled,
\* which at the end is the number of schema files found.
C25_PayloadSchemasSkipped ==
    pc \in {"ec_check", "ec_find", "ec_loop", "ec_exit"} =>
        /\ AttemptedInOrder
        /\ \A i \in PayloadNamed(reg_idx) :
               ~attempts[i].posted /\ attempts[i].result = "None"
        /\ skipped = Cardinality(PayloadNamed(reg_idx))
        /\ registered =
               Cardinality({i \in DOMAIN attempts : attempts[i].result = "True"})
        /\ failed =
               Cardinality({i \in DOMAIN attempts : attempts[i].result = "False"})
        /\ registered + skipped + failed = reg_idx
        /\ pc = "ec_exit" /\ schema_file_list # <<>> => reg_idx = Len(schema_file_list)

\* a finished run with a skipped payload schema, a registered schema and a
\* schema that failed on an answer of 200 whose body is no JSON object
C25_Witness ==
    /\ pc = "ec_exit"
    /\ skipped = 1
    /\ registered = 1
    /\ failed = 1
    /\ \E i \in DOMAIN attempts :
           attempts[i].status = 200 /\ attempts[i].result = "False"
    /\ \E i \in DOMAIN attempts :
           schema_file_list[i].payload_named /\ schema_file_list[i].valid_json
           /\ ~attempts[i].posted

\* some health check made so far did not answer 200
SomeCheckFailed == \E i \in DOMAIN health : health[i] # 200

\* C26 (health check gates traffic): events exist and are sent only after
\* each of the three services answered its health check with 200; once a
\* check failed or answered another status nothing is generated or sent, and
\* the run ends with exit status 1
C26_HealthGatesTraffic ==
    /\ (sent # <<>> \/ demo_events # <<>> \/ pc = "demo_send") =>
           /\ Len(health) = 3
           /\ \A i \in 1..3 : health[i] = 200
    /\ SomeCheckFailed =>
           /\ sent = <<>>
           /\ demo_events = <<>>
           /\ pc \in {"demo_health", "demo_exit"}
           /\ pc = "demo_exit" => demo_exit = 1

\* the run ended after the second service failed its check, the third
\* having been checked all the same
C26_Witness ==
    /\ pc = "demo_exit"
    /\ demo_exit = 1
    /\ health = <<200, 500, 200>>
    /\ sent = <<>>

\* the number of events of the list that go to the service
EventsOf(list, service) == Cardinality({i \in DOMAIN list : list[i].service = service})

\* the number of POSTs made for the event at position i of the list
TimesSent(i) == Cardinality({j \in DOMAIN sent : sent[j].event = i})

\* C27 (event count split): for a positive count the list generate_events
\* builds has exactly count events, floor(count/3) for each service plus one
\* for orders when count mod 3 > 0 and one for manufacturing when
\* count mod 3 > 1; every POST carries an event of the list to its service,
\* no event is sent twice, and when the run has ended every event was sent
\* exactly once
C27_EventCountSplit ==
    (pc = "demo_send" \/ (pc = "demo_exit" /\ demo_exit = 0)) =>
        /\ args.count > 0
        /\ Len(demo_events) = args.count
        /\ EventsOf(demo_events, "orders") =
               (args.count \div 3) + (IF args.count % 3 > 0 THEN 1 ELSE 0)
        /\ EventsOf(demo_events, "manufacturing") =
               (args.count \div 3) + (IF args.count % 3 > 1 THEN 1 ELSE 0)
        /\ EventsOf(demo_events, "collections") = args.count \div 3
        /\ \A j \in DOMAIN sent :
               /\ sent[j].event \in DOMAIN demo_events
               /\ sent[j].service = demo_events[sent[j].event].service
        /\ \A i \in DOMAIN demo_events : TimesSent(i) <= 1
        /\ pc = "demo_exit" =>
               /\ Len(sent) = args.count
               /\ \A i \in DOMAIN demo_events : TimesSent(i) = 1

\* a run of MaxCount events, not a multiple of three, ended with all of them
\* sent and one POST refused
C27_Witness ==
    /\ pc = "demo_exit"
    /\ demo_exit = 0
    /\ args.count = MaxCount
    /\ args.count % 3 # 0
    /\ Len(sent) = MaxCount
    /\ \E j \in DOMAIN sent : sent[j].status = 0

\* the sum over the three services of two counters of the tracker
SumOver(tracker, one, other) ==
    (tracker.by_service["orders"][one] + tracker.by_service["orders"][other])
    + (tracker.by_service["manufacturing"][one] + tracker.by_service["manufacturing"][other])
    + (tracker.by_service["collections"][one] + tracker.by_service["collections"][other])

\* the totals of the tracker agree
StatsSumsAgree ==
    /\ stats.total = SumOver(stats, "valid", "invalid")
    /\ stats.total = SumOver(stats, "success", "failed")
    /\ \A sv \in DOMAIN stats.by_service :
           stats.by_service[sv].valid + stats.by_service[sv].invalid
             = stats.by_service[sv].success + stats.by_service[sv].failed

\* a record call changes the counters of no service but the one it names
OthersUntouched ==
    stats' # stats =>
        \A sv \in DOMAIN stats.by_service :
            sv # last_record'.service => stats'.by_service[sv] = stats.by_service[sv]

\* C28 (statistics consistency): after any sequence of record calls total
\* equals the sum over the services of valid + invalid and of success +
\* failed, each service has valid + invalid = success + failed, and a record
\* call for one service leaves the counters of the other services unchanged
C28_StatsConsistent == []StatsSumsAgree /\ [][OthersUntouched]_vars

\* C8 (the graph owns its records): rendering an event page changes no entry
\* of the event_flows mapping it is given, hence no publishers and no
\* consumers list.
C8_FlowsNotMutated == [][cat_flows' = cat_flows]_vars

====
